---- MODULE Spec2Model ----
(***************************************************************************)
(* A model of the Luanti client of miney (src/miney/luanticlient):         *)
(*   - the session state holder (state.py),                                *)
(*   - the caller thread running LuantiClient.connect / disconnect /       *)
(*     send_chat_message / send_formspec_response (client.py),            *)
(*   - the background receive thread of Connection (connection.py) that    *)
(*     runs the CommandHandler handlers (command_handler.py),              *)
(*   - the split-packet reassembly of Connection._handle_split_packet.     *)
(* Shared fields are read and written one step at a time where the code    *)
(* takes no lock, so the two threads interleave as they can in the code.   *)
(***************************************************************************)
EXTENDS Integers, Sequences, FiniteSets, TLC

(* ------------------------------------------------------------------ *)
(* Program constants                                                    *)
(* ------------------------------------------------------------------ *)

\* constants.py, class ClientState
DISCONNECTED == 0
CONNECTING == 1
AUTHENTICATING == 2
AUTHENTICATED == 3
JOINING == 4
JOINED == 5

\* Python's None for the optional integer fields of the state holder
None == -1

\* state.py: the initial value of sequence_number
InitialSequenceNumber == 65500

\* connection.py: sequence numbers wrap modulo 65536
SeqModulus == 65536

\* command_handler.py: HELLO's auth-method bit that announces FIRST_SRP
AUTH_FIRST_SRP == 4

\* LuantiClient.__init__: the protocol id 0x4f457403 the Protocol is built with
protocol_id == 1330607107

(* ------------------------------------------------------------------ *)
(* Bounds of the model                                                  *)
(* ------------------------------------------------------------------ *)

\* datagrams the server sends to the receive thread in one run
MaxInbound == 2

\* calls of connect() in one run
MaxConnects == 1

\* calls of send_chat_message / send_formspec_response that are not refused,
\* in one run
MaxSends == 1

\* chunks of one inbound split message
MaxChunks == 3

\* bytes of one inbound chunk
MaxChunkLen == 1

\* chunks of a second, unrelated split message delivered in between
MaxNoise == 1

\* keep-alive packets the receive thread sends in one run
MaxKeepAlives == 1

\* miney:code_form formspecs the server shows
MaxForms == 2

\* Lua.run calls
MaxRuns == 2

\* connect() calls after the first ones
MaxReconnects == 1

\* steps of one SRP exchange in one run: clients created, challenges, proofs verified
MaxSrpSteps == 4

\* send_packet calls of one thread
MaxMessages == 2

\* split chunks the timed receive loop gets
MaxTimedChunks == 3

\* seconds the clock runs
MaxTime == 32

\* commands the reassembly hands to the processor
MaxCalls == 1

\* tokens uuid4 hands out: register calls that store a handler
MaxTokens == 3

\* datagrams the receive loop reads
MaxReceived == 2

\* automatic respawn responses sent
MaxRespawns == 2

\* formspec handlers registered for one form name
MaxFormHandlers == 2

\* chat handlers registered
MaxChatHandlers == 3

\* bytes after the command id in a built command
MaxDataLen == 1

\* names in one UPDATE_PLAYER_LIST payload
MaxPlayers == 2

(* ------------------------------------------------------------------ *)
(* Inputs                                                               *)
(* ------------------------------------------------------------------ *)

\* peer ids the server assigns in the handshake reply
PeerIds == {7}

\* reason-code bytes of ACCESS_DENIED payloads
DeniedCodes == {0, 1}

\* HELLO payloads: the auth-method bitmask data[4]
AuthMethods == {0, AUTH_FIRST_SRP}

\* the inbound commands the server can send (command id and what the
\* handlers read of the payload)
InboundCommands ==
    {[cmd |-> "HELLO", arg |-> m] : m \in AuthMethods}
    \cup {[cmd |-> "AUTH_ACCEPT", arg |-> 0]}
    \cup {[cmd |-> "ACCESS_DENIED", arg |-> c] : c \in DeniedCodes}
    \cup {[cmd |-> "SRP_BYTES_S_B", arg |-> 0]}
    \* NODEDEF: arg 0 a blob that decompresses, 1 one that does not
    \cup {[cmd |-> "NODEDEF", arg |-> a] : a \in {0, 1}}
    \cup {[cmd |-> "PING", arg |-> 0]}

NoCommand == [cmd |-> "NONE", arg |-> 0]

VARIABLES
    st,             \* ClientStateHolder: the session state fields
    register_mode,  \* LuantiClient.register_mode
    sock,           \* Connection.sock: "none" (None) or "open"
    running,        \* Connection.running
    pc,             \* the caller thread's position
    ret,            \* where the caller's disconnect() returns to
    tpc,            \* the receive thread's position; "none": no live thread
    tcmd,           \* the command the receive thread is handling
    wire,           \* reliable and disconnect datagrams sent since connect() last began
    acks,           \* ACK datagrams the client has sent
    keepalives,     \* keep-alive datagrams the client has sent
    nodedefs,       \* NODEDEF blobs decompressed since the session state was reset
    entry,          \* disconnect(): datagrams sent so far if it was called on a
                    \* client that is disconnected, else None
    result,         \* what the caller's last call returned or raised
    connects,       \* connect() calls so far (the number of the attempt)
    sends,          \* send_chat_message / send_formspec_response calls not refused so far
    inbound,        \* datagrams received by the receive thread so far
    denied,         \* reason codes of the ACCESS_DENIED processed in this attempt
    split_packets,  \* Connection.split_packets
    calls,          \* invocations of the command processor by the reassembler
    scenario,       \* the split message being delivered, and what was delivered
    connected_players,  \* ClientStateHolder._connected_players
    player_cmd,     \* the UPDATE_PLAYER_LIST command handled last
    frame,          \* the packet built last, and what Protocol.parse makes of it
    chat_message_handlers,  \* CommandHandler.chat_message_handlers: what each handler does when called
    chat_calls,  \* the handler calls of the CHAT_MESSAGE dispatched last
    chat_outcome,  \* how that dispatch ended
    formspec_handlers,  \* CommandHandler.formspec_handlers: per form name, what each handler does when called
    auto_respawn,  \* ClientStateHolder.auto_respawn
    form_calls,  \* the handler calls of the SHOW_FORMSPEC dispatched last
    rx,  \* the parsed packet the receive loop is handling
    events,  \* what the receive loop did: datagrams read, ACKs sent, commands dispatched
    event_handlers,  \* Callback._event_handlers: per event the (token, callback) pairs, in order
    next_token,  \* how many tokens uuid4 has handed out
    code_form,  \* Callback._code_form_shown and _code_form_warmup_sent
    now,  \* time.time(), in seconds since the receive loop started
    last_keep_alive_time,  \* _receive_and_keep_alive_loop: last_keep_alive_time
    senders,  \* per thread: where it is in send_packet / send_split_packet, and its locals
    next_split_seqnum,  \* Connection.split_seqnum
    datagrams,  \* the reliable datagrams handed to sock.sendto by send_packet, in order
    srp_user,  \* state.srp_user: the SRPClient of the exchange in progress, or None
    srp_log,  \* what the exchange did: clients created, challenges answered or rejected, proofs verified
    form_ready,  \* Lua.form_ready
    pending_lua_results,  \* Lua.pending_lua_results: execution id -> None or the response
    lua_run,  \* the caller thread inside Lua.run: position, locals, outcome
    lua_handler,  \* the receive thread inside _handle_miney_code_form
    runs,  \* run() calls made
    forms  \* code forms delivered

\* the caller thread's own variables
callerVars == <<pc, ret, result, connects, sends, entry>>

\* the receive thread's own variables
threadVars == <<tpc, tcmd, inbound, acks, keepalives>>

clientVars == <<st, register_mode, sock, running, wire, denied, nodedefs, callerVars,
                threadVars>>

splitVars == <<split_packets, calls, scenario>>

playerVars == <<connected_players, player_cmd>>

codecVars == <<frame>>

chatVars == <<chat_message_handlers, chat_calls, chat_outcome>>

formspecVars == <<formspec_handlers, auto_respawn, form_calls>>

loopVars == <<rx, events>>

callbackVars == <<event_handlers, next_token, code_form>>

timeVars == <<now, last_keep_alive_time>>

sendVars == <<senders, next_split_seqnum, datagrams>>

srpVars == <<srp_user, srp_log>>

luaVars == <<form_ready, pending_lua_results, lua_run, lua_handler, runs, forms>>

vars == <<clientVars, splitVars, playerVars, codecVars, chatVars, formspecVars, loopVars,
          callbackVars, timeVars, sendVars, srpVars, luaVars>>

\* what the steps of the client life cycle leave alone
besideClient == <<splitVars, playerVars, codecVars, chatVars, formspecVars, loopVars,
                   callbackVars, timeVars, sendVars, srpVars, luaVars>>

\* what the steps of the reassembly leave alone
besideSplit == <<clientVars, playerVars, codecVars, chatVars, formspecVars, loopVars,
                  callbackVars, timeVars, sendVars, srpVars, luaVars>>

\* what the steps of the player list leave alone
besidePlayers == <<clientVars, splitVars, codecVars, chatVars, formspecVars, loopVars,
                    callbackVars, timeVars, sendVars, srpVars, luaVars>>

\* what the steps of the codec leave alone
besideCodec == <<clientVars, splitVars, playerVars, chatVars, formspecVars, loopVars,
                  callbackVars, timeVars, sendVars, srpVars, luaVars>>

\* what the steps of the chat dispatch leave alone
besideChat == <<clientVars, splitVars, playerVars, codecVars, formspecVars, loopVars,
                 callbackVars, timeVars, sendVars, srpVars, luaVars>>

\* what the steps of the formspec dispatch leave alone, the client apart
besideFormspec == <<splitVars, playerVars, codecVars, chatVars, loopVars, callbackVars,
                     timeVars, sendVars, srpVars, luaVars>>

\* what the steps of the receive loop leave alone, the client, the reassembly
\* and the chat dispatch apart
besideLoop == <<playerVars, codecVars, formspecVars, callbackVars, timeVars, sendVars,
                 srpVars, luaVars>>

\* what the steps of the callback manager leave alone, the client apart
besideCallback == <<splitVars, playerVars, codecVars, chatVars, formspecVars, loopVars,
                     timeVars, sendVars, srpVars, luaVars>>

\* what the steps of the timed receive loop leave alone, the client and the
\* reassembly apart
besideTime == <<playerVars, codecVars, chatVars, formspecVars, loopVars, callbackVars,
                 sendVars, srpVars, luaVars>>

\* what the steps of Connection.send_packet leave alone, the client apart
besideSend == <<splitVars, playerVars, codecVars, chatVars, formspecVars, loopVars,
                 callbackVars, timeVars, srpVars, luaVars>>

\* what the steps of the SRP exchange leave alone
besideSrp == <<clientVars, splitVars, playerVars, codecVars, chatVars, formspecVars,
                loopVars, callbackVars, timeVars, sendVars, luaVars>>

\* what the steps of Lua.run and its form handler leave alone
besideLua == <<clientVars, splitVars, playerVars, codecVars, chatVars, formspecVars,
                loopVars, callbackVars, timeVars, sendVars, srpVars>>

(* ------------------------------------------------------------------ *)
(* ClientStateHolder                                                    *)
(* ------------------------------------------------------------------ *)

\* ClientStateHolder.__init__: the default value of every field
FreshState ==
    [state |-> DISCONNECTED,
     connected |-> FALSE,
     authenticated |-> FALSE,
     peer_id |-> None,
     access_denied_reason |-> None,
     access_denied_code |-> None,
     srp_user |-> FALSE,
     sequence_number |-> InitialSequenceNumber,
     packets_sent |-> 0,
     packets_received |-> 0,
     has_node_definitions |-> FALSE]

\* ClientStateHolder.reset: re-runs __init__
reset(s) == FreshState

\* LuantiClient.get_access_denied_reason and the texts _handle_access_denied
\* builds from it: a non-empty text per reason code (here the code plus 100)
ReasonMessage(code) == 100 + code

(* ------------------------------------------------------------------ *)
(* Connection: sending                                                  *)
(* ------------------------------------------------------------------ *)

\* Protocol.create_reliable_original_packet, as the fields a parser recovers
ReliablePacket(peer, seq, cmd) ==
    [type |-> "reliable", peer |-> peer, seq |-> seq, cmd |-> cmd]

\* Protocol.create_disconnect_packet
DisconnectPacket(peer) ==
    [type |-> "control", peer |-> peer, seq |-> 0, cmd |-> "DISCONNECT"]

\* Connection.send_packet, the guard: refuses when not connected or no peer id
CanSend(s) == s.connected /\ s.peer_id # None

\* Connection.send_packet, the result: True when the datagram went out
\* (sendto on a closed socket raises, which send_packet catches)
SendOk(s) == CanSend(s) /\ sock = "open"

\* Connection.send_packet, the state after it: the sequence number advances
\* once the packet is built, packets_sent once it is sent
SendState(s) ==
    IF ~CanSend(s) THEN s
    ELSE [s EXCEPT !.sequence_number = (@ + 1) % SeqModulus,
                   !.packets_sent = IF sock = "open" THEN @ + 1 ELSE @]

\* a send_packet that transmits its datagram a second time
SendWireTwice(s, w, cmd) ==
    IF SendOk(s)
    THEN w \o <<ReliablePacket(s.peer_id, s.sequence_number, cmd),
                ReliablePacket(s.peer_id, s.sequence_number, cmd)>>
    ELSE w

\* Connection.send_packet, the datagram it puts on the wire
SendWire(s, w, cmd) ==
    IF SendOk(s) THEN Append(w, ReliablePacket(s.peer_id, s.sequence_number, cmd))
    ELSE w

(* ------------------------------------------------------------------ *)
(* The caller thread: LuantiClient.connect                              *)
(* ------------------------------------------------------------------ *)

NoResult == [call |-> "none", line |-> 0, kind |-> "none", code |-> None,
             state |-> DISCONNECTED, authenticated |-> FALSE, connected |-> FALSE,
             fresh |-> TRUE, sock |-> "none", running |-> FALSE, alive |-> FALSE,
             entry |-> None, sent |-> 0]

\* what a call returned or raised at a line of client.py, with the state the
\* caller finds at that moment
Outcome(call, line, kind, code, s, so) ==
    [call |-> call, line |-> line, kind |-> kind, code |-> code, state |-> s.state,
     authenticated |-> s.authenticated, connected |-> s.connected,
     fresh |-> s = FreshState, sock |-> so, running |-> running,
     alive |-> tpc # "none", entry |-> entry, sent |-> Len(wire) + acks + keepalives]

\* connect(): register_mode = register
CallConnect(register) ==
    /\ pc = "idle"
    /\ connects < MaxConnects
    /\ register_mode' = register
    /\ connects' = connects + 1
    /\ pc' = "connect_reset"
    /\ UNCHANGED <<besideClient, nodedefs, entry, st, sock, running, wire, denied, ret,
                   result, sends, threadVars>>

\* connect(): state.reset(); state.state = CONNECTING
ConnectReset ==
    /\ pc = "connect_reset"
    /\ st' = [reset(st) EXCEPT !.state = CONNECTING]
    /\ denied' = {}
    /\ nodedefs' = 0
    /\ wire' = <<>>
    /\ pc' = "establish"
    /\ UNCHANGED <<besideClient, entry, register_mode, sock, running, ret, result,
                   connects, sends, threadVars>>

\* Connection.start_receiver: a thread is started only when none is alive
StartReceiverRunning == IF tpc = "none" THEN TRUE ELSE running

StartReceiverThread == IF tpc = "none" THEN "loop" ELSE tpc

\* Connection.establish: a new socket, the handshake, and on a reply of at
\* least 14 bytes the peer id, connected and the receive thread; no reply or
\* a shorter one is a failure
Establish ==
    /\ pc = "establish"
    /\ sock' = "open"
    /\ \/ \E p \in PeerIds :
            /\ st' = [st EXCEPT !.packets_sent = @ + 1, !.packets_received = @ + 1,
                                !.peer_id = p, !.connected = TRUE]
            /\ running' = StartReceiverRunning
            /\ tpc' = StartReceiverThread
            /\ pc' = "send_init"
       \/ /\ \E short \in BOOLEAN :
                st' = [st EXCEPT !.packets_sent = @ + 1,
                                 !.packets_received = IF short THEN @ + 1 ELSE @]
          /\ pc' = "establish_failed"
          /\ UNCHANGED <<running, tpc>>
    /\ UNCHANGED <<besideClient, nodedefs, entry, register_mode, wire, denied, ret,
                   result, connects, sends, tcmd, inbound, acks, keepalives>>

\* connect() returning False after a failed establish() with the phase left
\* at CONNECTING
EstablishFailedKeepsPhase ==
    /\ pc = "establish_failed"
    /\ result' = Outcome("connect", 77, "false", None, st, sock)
    /\ pc' = "returned"
    /\ UNCHANGED <<besideClient, nodedefs, entry, register_mode, sock, running, wire,
                   denied, ret, connects, sends, threadVars, st>>

\* connect(): establish() returned False
EstablishFailed ==
    /\ pc = "establish_failed"
    /\ st' = [st EXCEPT !.state = DISCONNECTED]
    /\ result' = Outcome("connect", 77, "false", None, st', sock)
    /\ pc' = "returned"
    /\ UNCHANGED <<besideClient, nodedefs, entry, register_mode, sock, running, wire,
                   denied, ret, connects, sends, threadVars>>

\* LuantiClient.send_init
SendInit ==
    /\ pc = "send_init"
    /\ st' = SendState(st)
    /\ wire' = SendWire(st, wire, "INIT")
    /\ pc' = "poll"
    /\ UNCHANGED <<besideClient, nodedefs, entry, register_mode, sock, running, denied,
                   ret, result, connects, sends, threadVars>>

\* connect(): while state.state < JOINED and time.time() < timeout
Poll ==
    /\ pc = "poll"
    /\ \/ /\ st.state < JOINED
          /\ pc' = "poll_reason"
       \/ pc' = "after_poll"
    /\ UNCHANGED <<besideClient, nodedefs, entry, st, register_mode, sock, running, wire,
                   denied, ret, result, connects, sends, threadVars>>

\* connect(): if state.access_denied_reason: ... else time.sleep(0.1)
PollReason ==
    /\ pc = "poll_reason"
    /\ pc' = IF st.access_denied_reason # None THEN "poll_raise" ELSE "poll"
    /\ UNCHANGED <<besideClient, nodedefs, entry, st, register_mode, sock, running, wire,
                   denied, ret, result, connects, sends, threadVars>>

\* connect(): raise LuantiConnectionError(reason_code=state.access_denied_code)
PollRaise ==
    /\ pc = "poll_raise"
    /\ result' = Outcome("connect", 85, "raise", st.access_denied_code, st, sock)
    /\ pc' = "returned"
    /\ UNCHANGED <<besideClient, nodedefs, entry, st, register_mode, sock, running, wire,
                   denied, ret, connects, sends, threadVars>>

\* connect(): if state.state < JOINED: disconnect(); return False / return True
AfterPoll ==
    /\ pc = "after_poll"
    /\ IF st.state < JOINED
       THEN /\ pc' = "stop_receiver"
            /\ ret' = "connect"
            /\ UNCHANGED result
       ELSE /\ pc' = "returned"
            /\ result' = Outcome("connect", 98, "true", None, st, sock)
            /\ UNCHANGED ret
    /\ UNCHANGED <<besideClient, nodedefs, entry, st, register_mode, sock, running, wire,
                   denied, connects, sends, threadVars>>

\* the caller has the outcome of its call and goes on
Resume ==
    /\ pc = "returned"
    /\ pc' = "idle"
    /\ result' = NoResult
    /\ UNCHANGED <<besideClient, nodedefs, entry, st, register_mode, sock, running, wire,
                   denied, ret, connects, sends, threadVars>>

(* ------------------------------------------------------------------ *)
(* The caller thread: LuantiClient.disconnect, Connection.disconnect    *)
(* ------------------------------------------------------------------ *)

\* what a caller can see of a client that is not connected: the session state
\* of a new client, no socket, the loop told to stop
IsDisconnected(s, so, run) == s = FreshState /\ so = "none" /\ ~run

\* disconnect() called by the user
CallDisconnect ==
    /\ pc = "idle"
    /\ pc' = "stop_receiver"
    /\ ret' = "user"
    /\ entry' = IF IsDisconnected(st, sock, running) THEN Len(wire) + acks + keepalives
                ELSE None
    /\ UNCHANGED <<besideClient, nodedefs, st, register_mode, sock, running, wire, denied,
                   result, connects, sends, threadVars>>

\* Connection.stop_receiver: running = False
StopReceiver ==
    /\ pc = "stop_receiver"
    /\ running' = FALSE
    /\ pc' = "join"
    /\ UNCHANGED <<besideClient, nodedefs, entry, st, register_mode, sock, wire, denied,
                   ret, result, connects, sends, threadVars>>

\* Connection.stop_receiver: receive_thread.join(timeout=1.0) returns when the
\* thread has ended, or after the timeout with the thread still alive
Join ==
    /\ pc = "join"
    /\ \/ tpc = "none"
       \/ tpc # "none"
    /\ pc' = "send_disconnect"
    /\ UNCHANGED <<besideClient, nodedefs, entry, st, register_mode, sock, running, wire,
                   denied, ret, result, connects, sends, threadVars>>

\* a disconnect() that looks only at the connection, not at a recorded denial
ConnectedWithSocket(s, so) == s.connected /\ s.peer_id # None /\ so = "open"

\* Connection.disconnect: the condition under which the disconnect packet is sent
ShouldSendDisconnect(s, so) ==
    s.connected /\ s.peer_id # None /\ so = "open" /\ s.access_denied_reason = None

\* Connection.disconnect: the disconnect control packet
SendDisconnect ==
    /\ pc = "send_disconnect"
    /\ IF ShouldSendDisconnect(st, sock)
       THEN /\ wire' = Append(wire, DisconnectPacket(st.peer_id))
            /\ st' = [st EXCEPT !.packets_sent = @ + 1]
       ELSE UNCHANGED <<wire, st>>
    /\ pc' = "close"
    /\ UNCHANGED <<besideClient, nodedefs, entry, register_mode, sock, running, denied,
                   ret, result, connects, sends, threadVars>>

\* Connection.disconnect: sock.close(); sock = None
CloseSocket ==
    /\ pc = "close"
    /\ sock' = "none"
    /\ pc' = "clear_flags"
    /\ UNCHANGED <<besideClient, nodedefs, entry, st, register_mode, running, wire,
                   denied, ret, result, connects, sends, threadVars>>

\* Connection.disconnect: connected = False; authenticated = False
ClearFlags ==
    /\ pc = "clear_flags"
    /\ st' = [st EXCEPT !.connected = FALSE, !.authenticated = FALSE]
    /\ pc' = "disconnect_reset"
    /\ UNCHANGED <<besideClient, nodedefs, entry, register_mode, sock, running, wire,
                   denied, ret, result, connects, sends, threadVars>>

\* LuantiClient.disconnect: the session state after connection.disconnect()
DisconnectState(s) == reset(s)

\* LuantiClient.disconnect: state.reset()
DisconnectReset ==
    /\ pc = "disconnect_reset"
    /\ st' = DisconnectState(st)
    /\ denied' = {}
    /\ nodedefs' = 0
    /\ pc' = "disconnect_return"
    /\ UNCHANGED <<besideClient, entry, register_mode, sock, running, wire, ret, result,
                   connects, sends, threadVars>>

\* disconnect() returns: to the user, or into connect(), which returns False
DisconnectReturn ==
    /\ pc = "disconnect_return"
    /\ result' = IF ret = "connect"
                 THEN Outcome("connect", 94, "false", None, st, sock)
                 ELSE Outcome("disconnect", 103, "none", None, st, sock)
    /\ pc' = "returned"
    /\ ret' = "user"
    /\ entry' = None
    /\ UNCHANGED <<besideClient, nodedefs, st, register_mode, sock, running, wire, denied,
                   connects, sends, threadVars>>

(* ------------------------------------------------------------------ *)
(* The caller thread: send_chat_message, send_formspec_response         *)
(* ------------------------------------------------------------------ *)

\* a send that is never refused
NeverRefused(s) == FALSE

\* send_chat_message / send_formspec_response: refuse when not authenticated
SendRefused(s) == ~s.authenticated

\* send_chat_message(message) / send_formspec_response(formname, fields), with
\* the lines of their two return statements
SendCommand(call, cmd, refused, sent) ==
    /\ pc = "idle"
    /\ IF SendRefused(st)
       THEN /\ result' = Outcome(call, refused, "false", None, st, sock)
            /\ UNCHANGED <<st, wire, sends>>
       ELSE /\ sends < MaxSends
            /\ sends' = sends + 1
            /\ st' = SendState(st)
            /\ wire' = SendWire(st, wire, cmd)
            /\ result' = Outcome(call, sent, IF SendOk(st) THEN "true" ELSE "false",
                                 None, st', sock)
    /\ pc' = "returned"
    /\ UNCHANGED <<besideClient, nodedefs, entry, register_mode, sock, running, denied,
                   ret, connects, threadVars>>

SendChatMessage == SendCommand("send_chat_message", "CHAT_MESSAGE", 142, 145)

SendFormspecResponse ==
    SendCommand("send_formspec_response", "INVENTORY_FIELDS", 168, 171)

(* ------------------------------------------------------------------ *)
(* The receive thread: Connection._receive_and_keep_alive_loop          *)
(* ------------------------------------------------------------------ *)

\* CommandHandler.handlers: where the handler of a command starts
HandlerEntry(c) ==
    CASE c.cmd = "HELLO" -> "hello"
      [] c.cmd = "AUTH_ACCEPT" -> "auth_accept"
      [] c.cmd = "ACCESS_DENIED" -> "access_denied"
      [] c.cmd = "SRP_BYTES_S_B" -> "srp_bytes_s_b"
      [] c.cmd = "NODEDEF" -> "nodedef"
      [] OTHER -> "ping"

\* while self.running: the loop ends once running is False
ThreadLoop ==
    /\ tpc = "loop"
    /\ tpc' = IF running THEN "recv" ELSE "none"
    /\ UNCHANGED <<besideClient, nodedefs, st, register_mode, sock, running, wire, denied,
                   callerVars, tcmd, inbound, acks, keepalives>>

\* sock.recvfrom times out, or raises because the socket is gone: next iteration
ThreadRecvNothing ==
    /\ tpc = "recv"
    /\ tpc' = "loop"
    /\ UNCHANGED <<besideClient, nodedefs, st, register_mode, sock, running, wire, denied,
                   callerVars, tcmd, inbound, acks, keepalives>>

\* two seconds after the last keep-alive, if connected with a peer id: the
\* keep-alive control packet (a send on a closed socket raises and is logged)
ThreadKeepAlive ==
    /\ tpc = "recv"
    /\ keepalives < MaxKeepAlives
    /\ st.connected /\ st.peer_id # None
    /\ sock = "open"
    /\ keepalives' = keepalives + 1
    /\ st' = [st EXCEPT !.packets_sent = @ + 1]
    /\ UNCHANGED <<besideClient, nodedefs, register_mode, sock, running, wire, denied,
                   callerVars, tpc, tcmd, inbound, acks>>

\* a reliable original packet arrives: packets_received, send_ack, then
\* command_processor(command_id, data)
ThreadRecv(c) ==
    /\ tpc = "recv"
    /\ sock = "open"
    /\ inbound < MaxInbound
    /\ inbound' = inbound + 1
    /\ st' = [st EXCEPT !.packets_received = @ + 1]
    /\ acks' = acks + 1
    /\ tcmd' = c
    /\ tpc' = HandlerEntry(c)
    /\ UNCHANGED <<besideClient, nodedefs, register_mode, sock, running, wire, denied,
                   callerVars, keepalives>>

\* the handler returns (or raises into the loop's except): next iteration
HandlerDone ==
    /\ tpc' = "loop"
    /\ tcmd' = NoCommand
    /\ UNCHANGED <<inbound, acks, keepalives>>

\* the handler goes on to its next statement
HandlerGoes(to) ==
    /\ tpc' = to
    /\ UNCHANGED <<tcmd, inbound, acks, keepalives>>

(* ------------------------------------------------------------------ *)
(* CommandHandler                                                       *)
(* ------------------------------------------------------------------ *)

\* _handle_hello: ignored when authenticated, else state = AUTHENTICATING
HandleHello ==
    /\ tpc = "hello"
    /\ IF st.authenticated
       THEN /\ HandlerDone
            /\ UNCHANGED st
       ELSE /\ st' = [st EXCEPT !.state = AUTHENTICATING]
            /\ HandlerGoes("hello_auth")
    /\ UNCHANGED <<besideClient, nodedefs, register_mode, sock, running, wire, denied,
                   callerVars>>

\* _handle_hello: registration is used when asked for and the server offers it
UseFirstSrp(reg, auth_methods) == reg /\ (auth_methods \div AUTH_FIRST_SRP) % 2 = 1

\* _handle_hello: auth_methods = data[4], which raises IndexError on a payload
\* of fewer than 5 bytes (arg None); then send_first_srp() or start_srp_auth()
HelloAuth ==
    /\ tpc = "hello_auth"
    /\ IF tcmd.arg = None
       THEN UNCHANGED <<st, wire>>
       ELSE IF UseFirstSrp(register_mode, tcmd.arg)
       THEN /\ st' = SendState(st)
            /\ wire' = SendWire(st, wire, "FIRST_SRP")
       ELSE /\ st' = SendState([st EXCEPT !.srp_user = TRUE])
            /\ wire' = SendWire(st, wire, "SRP_BYTES_A")
    /\ HandlerDone
    /\ UNCHANGED <<besideClient, nodedefs, register_mode, sock, running, denied,
                   callerVars>>

\* _handle_auth_accept: authenticated = True; state = AUTHENTICATED
HandleAuthAccept ==
    /\ tpc = "auth_accept"
    /\ st' = [st EXCEPT !.authenticated = TRUE, !.state = AUTHENTICATED]
    /\ HandlerGoes("send_init2")
    /\ UNCHANGED <<besideClient, nodedefs, register_mode, sock, running, wire, denied,
                   callerVars>>

\* LuantiClient.send_init2: INIT2, and if it was sent state = JOINING and
\* send_client_ready(), which raises before it sends anything: it passes two
\* arguments to Protocol.create_client_ready_command, which takes none
SendInit2 ==
    /\ tpc = "send_init2"
    /\ st' = IF SendOk(st) THEN [SendState(st) EXCEPT !.state = JOINING]
             ELSE SendState(st)
    /\ wire' = SendWire(st, wire, "INIT2")
    /\ HandlerDone
    /\ UNCHANGED <<besideClient, nodedefs, register_mode, sock, running, denied,
                   callerVars>>

\* _handle_access_denied: state.access_denied_reason = reason_message
AccessDeniedReason ==
    /\ tpc = "access_denied"
    /\ st' = [st EXCEPT !.access_denied_reason = ReasonMessage(tcmd.arg)]
    /\ HandlerGoes("access_denied_code")
    /\ UNCHANGED <<besideClient, nodedefs, register_mode, sock, running, wire, denied,
                   callerVars>>

\* _handle_access_denied: state.access_denied_code = reason_code
AccessDeniedCode ==
    /\ tpc = "access_denied_code"
    /\ st' = [st EXCEPT !.access_denied_code = tcmd.arg]
    /\ HandlerGoes("access_denied_state")
    /\ UNCHANGED <<besideClient, nodedefs, register_mode, sock, running, wire, denied,
                   callerVars>>

\* _handle_access_denied: state.state = DISCONNECTED; raise (the loop catches it)
AccessDeniedState ==
    /\ tpc = "access_denied_state"
    /\ st' = [st EXCEPT !.state = DISCONNECTED]
    /\ denied' = denied \cup {tcmd.arg}
    /\ HandlerDone
    /\ UNCHANGED <<besideClient, nodedefs, register_mode, sock, running, wire, callerVars>>

\* _handle_srp_bytes_s_b: srp_user.process_challenge and SRP_BYTES_M; without an
\* exchange in progress the call raises, which the handler catches
HandleSrpBytesSB ==
    /\ tpc = "srp_bytes_s_b"
    /\ IF st.srp_user
       THEN /\ st' = SendState(st)
            /\ wire' = SendWire(st, wire, "SRP_BYTES_M")
       ELSE UNCHANGED <<st, wire>>
    /\ HandlerDone
    /\ UNCHANGED <<besideClient, nodedefs, register_mode, sock, running, denied,
                   callerVars>>

\* _handle_nodedef: the phase after the handler's first statement
NodedefState(phase) == IF phase < JOINED THEN JOINED ELSE phase

\* _handle_nodedef: if state.state < JOINED: state.state = JOINED
HandleNodedef ==
    /\ tpc = "nodedef"
    /\ st' = [st EXCEPT !.state = NodedefState(@)]
    /\ HandlerGoes("nodedef_blob")
    /\ UNCHANGED <<besideClient, nodedefs, register_mode, sock, running, wire, denied,
                   callerVars>>

\* a handler that takes every NODEDEF for the first
EveryNodeDefinitions(s) == TRUE

\* _handle_nodedef: the acknowledgment goes out for the first definitions only
FirstNodeDefinitions(s) == ~s.has_node_definitions

\* _handle_nodedef: decompress; the first time, _has_node_definitions = True and
\* send_gotblocks(); a blob that does not decompress is logged
NodedefBlob ==
    /\ tpc = "nodedef_blob"
    /\ nodedefs' = IF tcmd.arg = 0 THEN nodedefs + 1 ELSE nodedefs
    /\ IF tcmd.arg = 0 /\ FirstNodeDefinitions(st)
       THEN LET got == [st EXCEPT !.has_node_definitions = TRUE]
            IN /\ st' = SendState(got)
               /\ wire' = SendWire(got, wire, "GOTBLOCKS")
       ELSE UNCHANGED <<st, wire>>
    /\ HandlerDone
    /\ UNCHANGED <<besideClient, register_mode, sock, running, denied, callerVars>>

\* _handle_ping: nothing
HandlePing ==
    /\ tpc = "ping"
    /\ HandlerDone
    /\ UNCHANGED <<besideClient, nodedefs, st, register_mode, sock, running, wire, denied,
                   callerVars>>

(* ------------------------------------------------------------------ *)
(* The client: specification                                            *)
(* ------------------------------------------------------------------ *)

NoScenario == [seq |-> 0, n |-> 0, chunks |-> <<>>, order |-> <<>>, noise |-> 0]

\* LuantiClient.__init__, Connection.__init__: a new client
InitClient ==
    /\ st = FreshState
    /\ register_mode = FALSE
    /\ sock = "none"
    /\ running = FALSE
    /\ pc = "idle"
    /\ ret = "user"
    /\ tpc = "none"
    /\ tcmd = NoCommand
    /\ wire = <<>>
    /\ acks = 0
    /\ keepalives = 0
    /\ nodedefs = 0
    /\ entry = None
    /\ result = NoResult
    /\ connects = 0
    /\ sends = 0
    /\ inbound = 0
    /\ denied = {}

\* no split message under way
IdleSplit ==
    /\ split_packets = <<>>
    /\ calls = <<>>
    /\ scenario = NoScenario

NoPlayerCmd == [list_type |-> None, players |-> <<>>]

\* no player list command handled
IdlePlayers ==
    /\ connected_players = <<>>
    /\ player_cmd = NoPlayerCmd

NoFrame == [builder |-> "none"]

\* no packet built
IdleCodec == frame = NoFrame

\* no chat handler registered, no chat message dispatched
IdleChat ==
    /\ chat_message_handlers = <<>>
    /\ chat_calls = <<>>
    /\ chat_outcome = "none"

\* no formspec handler registered, no SHOW_FORMSPEC dispatched, auto-respawn
\* as constructed
IdleFormspec ==
    /\ formspec_handlers = [formname \in {"__builtin:death", "miney:form"} |-> <<>>]
    /\ auto_respawn = TRUE
    /\ form_calls = <<>>

NoDatagram == [type |-> "None", content |-> <<>>]

\* the receive loop has read nothing
IdleLoop ==
    /\ rx = NoDatagram
    /\ events = <<>>

\* Callback.__init__: no handlers, the code form neither shown nor asked for
NoCodeForm == [shown |-> FALSE, warmup_sent |-> FALSE]

\* Callback.SUPPORTED_EVENTS
SUPPORTED_EVENTS == {"chat_message", "player_leaves", "player_joins"}

\* _event_handlers = {}: an event without an entry has no handlers
NoHandlersYet == [event \in SUPPORTED_EVENTS |-> <<>>]

IdleCallback ==
    /\ event_handlers = NoHandlersYet
    /\ next_token = 0
    /\ code_form = NoCodeForm

\* no time has passed since the receive loop started
IdleTime ==
    /\ now = 0
    /\ last_keep_alive_time = 0

\* the threads that call Connection.send_packet: the caller of the client's
\* methods and the receive thread, whose handlers send
SendThreads == {"caller", "receiver"}

\* no byte string
NoBytes == [len |-> 0, first |-> 0]

\* a thread outside send_packet
IdleSender ==
    [pc |-> "idle", data |-> NoBytes, total_chunks |-> 0, i |-> 0, split_seqnum |-> 0,
     packet |-> <<>>, loaded |-> 0, connected |-> FALSE, returned |-> <<>>]

\* Connection.__init__: split_seqnum = 0, nothing sent
IdleSend ==
    /\ senders = [t \in SendThreads |-> IdleSender]
    /\ next_split_seqnum = 0
    /\ datagrams = <<>>

\* state.srp_user = None
NoSrpUser == [id |-> 0]

\* no SRP exchange started
IdleSrp ==
    /\ srp_user = NoSrpUser
    /\ srp_log = <<>>

\* Lua.run not called, no form being handled
NoRun == [pc |-> "idle", lua_code |-> "none", execution_id |-> None, result |-> None,
          registered |-> FALSE, outcome |-> "none"]

NoForm == [pc |-> "idle", response |-> None]

\* Lua.__init__: the code form not seen, nothing pending
IdleLua ==
    /\ form_ready = FALSE
    /\ pending_lua_results = <<>>
    /\ lua_run = NoRun
    /\ lua_handler = NoForm
    /\ runs = 0
    /\ forms = 0

\* the components other than part are as constructed
IdleExcept(part) ==
    /\ IF part \in {"client", "loop+client+chat", "time+client+split"} THEN TRUE
       ELSE InitClient
    /\ IF part \in {"split", "time+client+split"} THEN TRUE ELSE IdleSplit
    /\ IF part = "players" THEN TRUE ELSE IdlePlayers
    /\ IF part = "codec" THEN TRUE ELSE IdleCodec
    /\ IF part \in {"chat", "loop+client+chat"} THEN TRUE ELSE IdleChat
    /\ IF part = "formspec" THEN TRUE ELSE IdleFormspec
    /\ IF part = "callback" THEN TRUE ELSE IdleCallback
    /\ IF part = "send" THEN TRUE ELSE IdleSend
    /\ IF part = "srp" THEN TRUE ELSE IdleSrp
    /\ IF part = "lua" THEN TRUE ELSE IdleLua
    /\ IF part = "time+client+split" THEN TRUE ELSE IdleTime
    /\ IF part \in {"loop", "loop+client+chat"} THEN TRUE ELSE IdleLoop

Init ==
    /\ InitClient
    /\ IdleExcept("client")

Caller ==
    \/ \E register \in BOOLEAN : CallConnect(register)
    \/ ConnectReset
    \/ Establish
    \/ EstablishFailed
    \/ SendInit
    \/ Poll
    \/ PollReason
    \/ PollRaise
    \/ AfterPoll
    \/ Resume
    \/ CallDisconnect
    \/ StopReceiver
    \/ Join
    \/ SendDisconnect
    \/ CloseSocket
    \/ ClearFlags
    \/ DisconnectReset
    \/ DisconnectReturn
    \/ SendChatMessage
    \/ SendFormspecResponse

Receiver ==
    \/ ThreadLoop
    \/ ThreadRecvNothing
    \/ ThreadKeepAlive
    \/ \E c \in InboundCommands : ThreadRecv(c)
    \/ HandleHello
    \/ HelloAuth
    \/ HandleAuthAccept
    \/ SendInit2
    \/ AccessDeniedReason
    \/ AccessDeniedCode
    \/ AccessDeniedState
    \/ HandleSrpBytesSB
    \/ HandleNodedef
    \/ NodedefBlob
    \/ HandlePing

Next == Caller \/ Receiver

Spec == Init /\ [][Next]_vars

(* ------------------------------------------------------------------ *)
(* Connection._handle_split_packet: reassembly                          *)
(* ------------------------------------------------------------------ *)

Bytes == {1, 2}

\* the chunk_data a split chunk can carry
ChunkData == UNION {[1..k -> Bytes] : k \in 0..MaxChunkLen}

\* SplitPacketPayload: one chunk as the parser hands it to the receiver
SplitPacketPayload(seqnum, count, num, data) ==
    [split_seqnum |-> seqnum, chunk_count |-> count, chunk_num |-> num,
     chunk_data |-> data]

\* chunks in descending index order
JoinDescending(chunks, count) ==
    LET RECURSIVE Down(_)
        Down(i) == IF i < 0 THEN <<>> ELSE chunks[i] \o Down(i - 1)
    IN Down(count - 1)

\* b''.join(chunks[i] for i in range(chunk_count))
JoinChunks(chunks, count) ==
    LET RECURSIVE Up(_)
        Up(i) == IF i >= count THEN <<>> ELSE chunks[i] \o Up(i + 1)
    IN Up(0)

\* the buffer of a split sequence: the one kept, or a new one
SplitBuffer(sp, p) ==
    IF p.split_seqnum \in DOMAIN sp THEN sp[p.split_seqnum]
    ELSE [chunks |-> <<>>, total_chunks |-> p.chunk_count, received_time |-> now]

\* split_packets[split_seqnum]['chunks'][chunk_num] = chunk_data
StoreChunk(sp, p) ==
    LET buf == SplitBuffer(sp, p)
        stored == [k \in DOMAIN buf.chunks \cup {p.chunk_num} |->
                     IF k = p.chunk_num THEN p.chunk_data ELSE buf.chunks[k]]
    IN [k \in DOMAIN sp \cup {p.split_seqnum} |->
          IF k = p.split_seqnum THEN [buf EXCEPT !.chunks = stored] ELSE sp[k]]

\* len(chunks) == payload.chunk_count
AllChunksReceived(chunks, count) == Cardinality(DOMAIN chunks) = count

\* del split_packets[split_seqnum]
DropBuffer(sp, seqnum) == [k \in DOMAIN sp \ {seqnum} |-> sp[k]]

\* struct.unpack(">H", data[0:2]) and data[2:]
ProcessorCall(data) ==
    [command_id |-> data[1] * 256 + data[2], data |-> SubSeq(data, 3, Len(data))]

\* _handle_split_packet(payload): store the chunk; once as many chunks are held
\* as the payload counts, join them (a missing index raises and leaves the
\* buffer), drop the buffer and hand data of two bytes or more to the processor
HandleSplitPacket(p) ==
    LET sp == StoreChunk(split_packets, p)
        chunks == sp[p.split_seqnum].chunks
    IN IF ~AllChunksReceived(chunks, p.chunk_count)
       THEN split_packets' = sp /\ UNCHANGED calls
       ELSE IF \E i \in 0..(p.chunk_count - 1) : i \notin DOMAIN chunks
       THEN split_packets' = sp /\ UNCHANGED calls
       ELSE LET data == JoinChunks(chunks, p.chunk_count)
            IN /\ split_packets' = DropBuffer(sp, p.split_seqnum)
               /\ calls' = IF Len(data) >= 2 THEN Append(calls, ProcessorCall(data))
                           ELSE calls

\* the split sequences delivered: 1..MaxChunks chunks of any content, under
\* split sequence number 1
Scenarios ==
    UNION {[seq : {1}, n : {n}, chunks : [1..n -> ChunkData],
            order : {<<>>}, noise : {0}] : n \in 1..MaxChunks}

InitSplit ==
    /\ IdleExcept("split")
    /\ split_packets = <<>>
    /\ calls = <<>>
    /\ scenario \in Scenarios

\* the chunk numbers of the sequence that have arrived
Delivered == {scenario.order[k] : k \in DOMAIN scenario.order}

\* chunk i of the sequence arrives: a new one, or again one that has arrived
\* while others are still missing
DeliverChunk(i) ==
    /\ i < scenario.n
    /\ Cardinality(Delivered) < scenario.n
    /\ HandleSplitPacket(SplitPacketPayload(scenario.seq, scenario.n, i,
                                            scenario.chunks[i + 1]))
    /\ scenario' = [scenario EXCEPT !.order = IF i \in Delivered THEN @
                                              ELSE Append(@, i)]
    /\ UNCHANGED besideSplit

\* the first chunk of another, two-chunk split sequence (number 2) arrives in
\* between
DeliverOther(data) ==
    /\ scenario.noise < MaxNoise
    /\ HandleSplitPacket(SplitPacketPayload(2, 2, 0, data))
    /\ scenario' = [scenario EXCEPT !.noise = @ + 1]
    /\ UNCHANGED besideSplit

NextSplit ==
    \/ \E i \in 0..(MaxChunks - 1) : DeliverChunk(i)
    \/ \E data \in ChunkData : DeliverOther(data)

SpecSplit == InitSplit /\ [][NextSplit]_vars

(* ------------------------------------------------------------------ *)
(* The cached player list (CommandHandler._handle_update_player_list)   *)
(* ------------------------------------------------------------------ *)

PlayerNames == {"a", "b", "c"}

\* the names of one UPDATE_PLAYER_LIST payload, in payload order; a name may
\* occur more than once
PlayerLists == UNION {[1..n -> PlayerNames] : n \in 0..MaxPlayers}

\* list_type byte of the payload: 0 SET, 1 ADD, 2 REMOVE, 3 none of them
ListTypes == {0, 1, 2, 3}

Range(seq) == {seq[i] : i \in DOMAIN seq}

\* list.extend() of the unfiltered payload
ExtendAll(roster, players) == roster \o players

\* list.extend() of the generator "p for p in players if p not in roster":
\* each name is tested against the list as it has grown so far
RECURSIVE ExtendNew(_, _)
ExtendNew(roster, players) ==
    IF players = <<>> THEN roster
    ELSE ExtendNew(IF Head(players) \in Range(roster) THEN roster
                   ELSE Append(roster, Head(players)),
                   Tail(players))

\* [p for p in roster if p not in players]
Without(roster, players) == SelectSeq(roster, LAMBDA p : p \notin Range(players))

UpdatePlayerList(list_type, players) ==
    /\ connected_players' = CASE list_type = 0 -> players
                              [] list_type = 1 -> ExtendNew(connected_players, players)
                              [] list_type = 2 -> Without(connected_players, players)
                              [] OTHER -> connected_players
    /\ player_cmd' = [list_type |-> list_type, players |-> players]
    /\ UNCHANGED besidePlayers

InitPlayers ==
    /\ IdleExcept("players")
    /\ connected_players = <<>>
    /\ player_cmd = NoPlayerCmd

NextPlayers == \E list_type \in ListTypes, players \in PlayerLists :
                   UpdatePlayerList(list_type, players)

SpecPlayers == InitPlayers /\ [][NextPlayers]_vars

(* ------------------------------------------------------------------ *)
(* The wire codec (Protocol builders and Protocol.parse)                *)
(* ------------------------------------------------------------------ *)

\* struct.pack(">B", v)
PackU8(v) == <<v>>

\* a 16-bit value with the low byte first
PackLittleEndian(v) == <<v % 256, (v \div 256) % 256>>

\* struct.pack(">H", v)
PackU16(v) == <<(v \div 256) % 256, v % 256>>

\* struct.pack(">I", v)
PackU32(v) == <<(v \div 16777216) % 256, (v \div 65536) % 256, (v \div 256) % 256,
                v % 256>>

\* struct.unpack("<H", b)[0]
UnpackLittleEndian(b) == b[2] * 256 + b[1]

\* struct.unpack(">H", b)[0]
UnpackU16(b) == b[1] * 256 + b[2]

\* struct.unpack(">I", b)[0]
UnpackU32(b) == ((b[1] * 256 + b[2]) * 256 + b[3]) * 256 + b[4]

\* data[a:b], with Python's 0-based, clipped bounds
Slice(data, a, b) == SubSeq(data, a + 1, IF b < Len(data) THEN b ELSE Len(data))

\* data[a:]
SliceFrom(data, a) == SubSeq(data, a + 1, Len(data))

\* data[i]
At(data, i) == data[i + 1]

\* Protocol.create_reliable_original_packet
create_reliable_original_packet(peer_id, sequence_number, data) ==
    LET basic_header == PackU32(protocol_id) \o PackU16(peer_id) \o PackU8(0)
        reliable_header == PackU8(3) \o PackU16(sequence_number)
        original_header == PackU8(1)
    IN  basic_header \o reliable_header \o original_header \o data

\* Protocol.create_reliable_split_packet
create_reliable_split_packet(peer_id, sequence_number, split_seqnum, total_chunks, chunk_num, chunk_data) ==
    LET split_header == PackU8(2) \o PackU16(split_seqnum) \o PackU16(total_chunks)
                            \o PackU16(chunk_num)
        basic_header == PackU32(protocol_id) \o PackU16(peer_id) \o PackU8(0)
        reliable_header == PackU8(3) \o PackU16(sequence_number)
    IN  basic_header \o reliable_header \o split_header \o chunk_data

\* Protocol.create_ack_packet
create_ack_packet(peer_id, channel, seqnum) ==
    PackU32(protocol_id) \o PackU16(peer_id) \o PackU8(channel) \o PackU8(0)
        \o PackU8(0) \o PackU16(seqnum)

\* Protocol.create_disconnect_packet
create_disconnect_packet(peer_id) ==
    PackU32(protocol_id) \o (PackU16(peer_id) \o PackU8(0)) \o PackU8(0) \o PackU8(3)

\* Protocol.create_keep_alive_packet
create_keep_alive_packet(peer_id) ==
    PackU32(protocol_id) \o (PackU16(peer_id) \o PackU8(0)) \o PackU8(0) \o PackU8(2)

\* the namedtuples of protocol.py
PacketData(type, content) == [type |-> type, content |-> content]

ReliablePacketData(peer_id, channel, seqnum, payload) ==
    [peer_id |-> peer_id, channel |-> channel, seqnum |-> seqnum, payload |-> payload]

OriginalPacketPayload(command_id, data) ==
    [class |-> "OriginalPacketPayload", command_id |-> command_id, data |-> data]

ControlPacketData(peer_id, channel, ctrl_type, payload) ==
    [class |-> "ControlPacketData", peer_id |-> peer_id, channel |-> channel,
     ctrl_type |-> ctrl_type, payload |-> payload]

AckPacketData(peer_id, channel, seqnum) ==
    [peer_id |-> peer_id, channel |-> channel, seqnum |-> seqnum]

DirectCommandData(command_id, data) == [command_id |-> command_id, data |-> data]

\* parse returned None
NoPacket == PacketData("None", <<>>)

\* parse raised IndexError: it read data[7] or data[10] past the end
ParseIndexError == PacketData("IndexError", <<>>)

\* Protocol.parse, a packet of type RELIABLE
ParseReliable(data, peer_id, channel) ==
    IF Len(data) < 10 THEN NoPacket
    ELSE IF Len(data) < 11 THEN ParseIndexError
    ELSE LET seqnum == UnpackU16(Slice(data, 8, 10))
             payload_type == At(data, 10)
         IN  CASE payload_type = 1 ->
                      IF Len(data) < 13 THEN NoPacket
                      ELSE PacketData("reliable", ReliablePacketData(peer_id, channel, seqnum,
                               OriginalPacketPayload(UnpackU16(Slice(data, 11, 13)),
                                                     SliceFrom(data, 13))))
               [] payload_type = 2 ->
                      IF Len(data) < 17 THEN NoPacket
                      ELSE PacketData("reliable", ReliablePacketData(peer_id, channel, seqnum,
                               SplitPacketPayload(UnpackU16(Slice(data, 11, 13)),
                                                  UnpackU16(Slice(data, 13, 15)),
                                                  UnpackU16(Slice(data, 15, 17)),
                                                  SliceFrom(data, 17))))
               [] payload_type = 0 ->
                      IF Len(data) < 12 THEN NoPacket
                      ELSE PacketData("reliable", ReliablePacketData(peer_id, channel, seqnum,
                               ControlPacketData(peer_id, channel, At(data, 11),
                                                 SliceFrom(data, 12))))
               [] OTHER -> NoPacket

\* Protocol.parse, a packet of type CONTROL
ParseControl(data, peer_id, channel) ==
    IF Len(data) < 9 THEN NoPacket
    ELSE LET ctrl_type == At(data, 8)
             payload == SliceFrom(data, 9)
         IN  IF ctrl_type = 0
             THEN IF Len(data) < 11 THEN NoPacket
                  ELSE PacketData("ack", AckPacketData(peer_id, channel,
                                                       UnpackU16(Slice(data, 9, 11))))
             ELSE PacketData("control",
                             ControlPacketData(peer_id, channel, ctrl_type, payload))

\* Protocol.parse
parse(data) ==
    IF Len(data) >= 4 /\ UnpackU32(Slice(data, 0, 4)) = protocol_id
    THEN IF Len(data) < 7 THEN NoPacket
         ELSE IF Len(data) < 8 THEN ParseIndexError
         ELSE LET peer_id == UnpackU16(Slice(data, 4, 6))
                  channel == At(data, 6)
                  packet_type_byte == At(data, 7)
              IN  CASE packet_type_byte = 3 -> ParseReliable(data, peer_id, channel)
                    [] packet_type_byte = 0 -> ParseControl(data, peer_id, channel)
                    [] OTHER -> NoPacket
    ELSE IF Len(data) >= 2
         THEN PacketData("direct_command",
                         DirectCommandData(UnpackU16(Slice(data, 0, 2)), SliceFrom(data, 2)))
         ELSE NoPacket

\* 16-bit values at and next to the ends of their range and of a byte
Words == {0, 1, 255, 256, 65535}

\* channel bytes
Channels == {0, 1, 255}

\* what follows the command id in a command
CodecData == UNION {[1..k -> {0, 255}] : k \in 0..MaxDataLen}

\* a built packet that Protocol.parse has not seen yet
Unparsed == PacketData("unparsed", <<>>)

\* a builder returns packet
Built(builder, args, packet) ==
    /\ frame.builder = "none"
    /\ frame' = [builder |-> builder, args |-> args, packet |-> packet,
                 parsed |-> Unparsed]
    /\ UNCHANGED besideCodec

\* Protocol.parse is applied to the packet built
Parse ==
    /\ frame.builder # "none"
    /\ frame.parsed = Unparsed
    /\ frame' = [frame EXCEPT !.parsed = parse(frame.packet)]
    /\ UNCHANGED besideCodec

BuildOriginal(peer_id, seq, command_id, data) ==
    Built("original",
          [peer_id |-> peer_id, seq |-> seq, command_id |-> command_id, data |-> data],
          create_reliable_original_packet(peer_id, seq, PackU16(command_id) \o data))

BuildSplit(peer_id, seq, split_seqnum, total_chunks, chunk_num, chunk_data) ==
    Built("split",
          [peer_id |-> peer_id, seq |-> seq, split_seqnum |-> split_seqnum,
           total_chunks |-> total_chunks, chunk_num |-> chunk_num,
           chunk_data |-> chunk_data],
          create_reliable_split_packet(peer_id, seq, split_seqnum, total_chunks,
                                       chunk_num, chunk_data))

BuildAck(peer_id, channel, seq) ==
    Built("ack", [peer_id |-> peer_id, channel |-> channel, seq |-> seq],
          create_ack_packet(peer_id, channel, seq))

BuildKeepAlive(peer_id) ==
    Built("keep_alive", [peer_id |-> peer_id], create_keep_alive_packet(peer_id))

BuildDisconnect(peer_id) ==
    Built("disconnect", [peer_id |-> peer_id], create_disconnect_packet(peer_id))

InitCodec ==
    /\ IdleExcept("codec")
    /\ frame = NoFrame

NextCodec ==
    \/ \E peer_id \in Words, seq \in Words, command_id \in Words, data \in CodecData :
           BuildOriginal(peer_id, seq, command_id, data)
    \/ \E peer_id \in Words, seq \in Words, split_seqnum \in Words, total_chunks \in Words,
          chunk_num \in Words, chunk_data \in CodecData :
           BuildSplit(peer_id, seq, split_seqnum, total_chunks, chunk_num, chunk_data)
    \/ \E peer_id \in Words, channel \in Channels, seq \in Words :
           BuildAck(peer_id, channel, seq)
    \/ \E peer_id \in Words : BuildKeepAlive(peer_id)
    \/ \E peer_id \in Words : BuildDisconnect(peer_id)
    \/ Parse

SpecCodec == InitCodec /\ [][NextCodec]_vars

(* ------------------------------------------------------------------ *)
(* Chat callbacks (CommandHandler._handle_chat_message)                 *)
(* ------------------------------------------------------------------ *)

\* what a registered chat handler does when called: return True, return
\* False, or raise an Exception
ChatResults == {"true", "false", "raise"}

\* the decoded text of a CHAT_MESSAGE
Messages == {"m1", "m2"}

\* a loop that never takes "if handler(message): return"
NeverHandled(r) == FALSE

\* "if handler(message)": the handler's result is true
Handled(r) == r = "true"

\* the for loop of _handle_chat_message from the handler at index i on, calls
\* being the handler calls made so far: the calls made in all, and whether the
\* loop returned or a handler's exception left it
RECURSIVE ChatLoop(_, _, _, _)
ChatLoop(handlers, message, i, made) ==
    IF i > Len(handlers) THEN [calls |-> made, outcome |-> "returned"]
    ELSE LET sofar == Append(made, [handler |-> i, message |-> message])
         IN  CASE handlers[i] = "raise" -> [calls |-> sofar, outcome |-> "raised"]
               [] Handled(handlers[i]) -> [calls |-> sofar, outcome |-> "returned"]
               [] OTHER -> ChatLoop(handlers, message, i + 1, sofar)

\* CommandHandler.register_chat_message_handler
RegisterChatMessageHandler(h) ==
    /\ Len(chat_message_handlers) < MaxChatHandlers
    /\ chat_message_handlers' = Append(chat_message_handlers, h)
    /\ UNCHANGED <<chat_calls, chat_outcome, besideChat>>

\* CommandHandler._handle_chat_message, the text decoded
HandleChatMessage(message) ==
    /\ LET run == ChatLoop(chat_message_handlers, message, 1, <<>>)
       IN  /\ chat_calls' = run.calls
           /\ chat_outcome' = run.outcome
    /\ UNCHANGED <<chat_message_handlers, besideChat>>

InitChat ==
    /\ IdleExcept("chat")
    /\ chat_message_handlers = <<>>
    /\ chat_calls = <<>>
    /\ chat_outcome = "none"

NextChat ==
    \/ \E h \in ChatResults : RegisterChatMessageHandler(h)
    \/ \E message \in Messages : HandleChatMessage(message)

SpecChat == InitChat /\ [][NextChat]_vars

(* ------------------------------------------------------------------ *)
(* Formspec callbacks (CommandHandler._handle_show_formspec)            *)
(* ------------------------------------------------------------------ *)

\* the form names a SHOW_FORMSPEC can carry: the death screen and another
FormNames == {"__builtin:death", "miney:form"}

\* the raw formspec text of a SHOW_FORMSPEC
Formspecs == {"f1", "f2"}

\* what a registered formspec handler does when called: return, or raise an
\* Exception
FormResults == {"ok", "raise"}

\* a loop that a raising handler leaves
RaiseEndsLoop(r) == r = "raise"

\* "try: h(formspec) except Exception": no handler's exception leaves the loop
EndsLoop(r) == FALSE

\* the for loop of _handle_show_formspec over list(handlers), from the handler
\* at index i on: the handler calls made in all
RECURSIVE FormLoop(_, _, _, _, _)
FormLoop(handlers, formname, formspec, i, made) ==
    IF i > Len(handlers) THEN made
    ELSE LET sofar == Append(made, [formname |-> formname, handler |-> i,
                                  formspec |-> formspec])
         IN  IF EndsLoop(handlers[i]) THEN sofar
             ELSE FormLoop(handlers, formname, formspec, i + 1, sofar)

\* a dispatch that never finds handlers
NoHandlers(handlers) == FALSE

\* "handlers = self.formspec_handlers.get(formname); if handlers:"
HasHandlers(handlers) == handlers # <<>>

\* the command _handle_death_screen sends: the response to the death form
RespawnResponse == "INVENTORY_FIELDS(__builtin:death, btn_respawn=true)"

\* how many of them are among the datagrams w
Respawns(w) == Cardinality({i \in DOMAIN w : w[i].cmd = RespawnResponse})

\* the client variables the formspec dispatch leaves alone
sessionRest == <<register_mode, running, denied, nodedefs, callerVars, threadVars>>

\* LuantiClient.connect up to its polling loop: state reset (auto_respawn
\* included), CONNECTING, the handshake of Connection.establish, which leaves
\* the client connected with a peer id and a socket, and INIT sent
SessionEstablished ==
    /\ ~st.connected
    /\ sock' = "open"
    /\ \E p \in PeerIds :
           LET s == [reset(st) EXCEPT !.state = CONNECTING, !.packets_sent = @ + 1,
                                      !.packets_received = @ + 1, !.peer_id = p,
                                      !.connected = TRUE]
           IN  /\ st' = [s EXCEPT !.sequence_number = (@ + 1) % SeqModulus,
                                  !.packets_sent = @ + 1]
               /\ wire' = <<ReliablePacket(s.peer_id, s.sequence_number, "INIT")>>
    /\ auto_respawn' = TRUE
    /\ UNCHANGED <<sessionRest, formspec_handlers, form_calls, besideFormspec>>

\* _handle_auth_accept: authenticated, then send_init2: INIT2 and JOINING
SessionAuthenticated ==
    /\ st.connected
    /\ ~st.authenticated
    /\ LET s == [st EXCEPT !.authenticated = TRUE, !.state = AUTHENTICATED]
       IN  /\ st' = IF SendOk(s) THEN [SendState(s) EXCEPT !.state = JOINING]
                    ELSE SendState(s)
           /\ wire' = SendWire(s, wire, "INIT2")
    /\ UNCHANGED <<sock, sessionRest, formspec_handlers, auto_respawn, form_calls,
                   besideFormspec>>

\* CommandHandler.register_formspec_handler
RegisterFormspecHandler(formname, h) ==
    /\ Len(formspec_handlers[formname]) < MaxFormHandlers
    /\ formspec_handlers' = [formspec_handlers EXCEPT ![formname] = Append(@, h)]
    /\ UNCHANGED <<st, sock, wire, sessionRest, auto_respawn, form_calls,
                   besideFormspec>>

\* the user sets state.auto_respawn
SetAutoRespawn(on) ==
    /\ auto_respawn # on
    /\ auto_respawn' = on
    /\ UNCHANGED <<st, sock, wire, sessionRest, formspec_handlers, form_calls,
                   besideFormspec>>

\* CommandHandler._handle_death_screen: send_formspec_response if auto_respawn
HandleDeathScreen ==
    IF auto_respawn /\ ~SendRefused(st)
    THEN /\ st' = SendState(st)
         /\ wire' = SendWire(st, wire, RespawnResponse)
    ELSE UNCHANGED <<st, wire>>

\* CommandHandler._handle_show_formspec, form name and text decoded, for a
\* SHOW_FORMSPEC read from the socket
HandleShowFormspec(formname, formspec) ==
    /\ sock = "open"
    /\ Respawns(wire) < MaxRespawns
    /\ LET handlers == formspec_handlers[formname]
       IN  IF HasHandlers(handlers)
           THEN /\ form_calls' = FormLoop(handlers, formname, formspec, 1, <<>>)
                /\ UNCHANGED <<st, wire>>
           ELSE /\ form_calls' = <<>>
                /\ IF formname = "__builtin:death" THEN HandleDeathScreen
                   ELSE UNCHANGED <<st, wire>>
    /\ UNCHANGED <<sock, sessionRest, formspec_handlers, auto_respawn, besideFormspec>>

InitFormspec ==
    /\ IdleExcept("formspec")
    /\ formspec_handlers = [formname \in FormNames |-> <<>>]
    /\ auto_respawn = TRUE
    /\ form_calls = <<>>

NextFormspec ==
    \/ SessionEstablished
    \/ SessionAuthenticated
    \/ \E formname \in FormNames, h \in FormResults : RegisterFormspecHandler(formname, h)
    \/ \E on \in BOOLEAN : SetAutoRespawn(on)
    \/ \E formname \in FormNames, formspec \in Formspecs :
           HandleShowFormspec(formname, formspec)

SpecFormspec == InitFormspec /\ [][NextFormspec]_vars

(* ------------------------------------------------------------------ *)
(* The receive loop, datagram by datagram, beside a disconnect()        *)
(* ------------------------------------------------------------------ *)

\* the server's peer id, the first field of what it sends
ServerPeerId == 1

\* ToClientCommand: the commands the datagrams below carry
TIME_OF_DAY == 41
CHAT_MESSAGE == 47

\* the payload of a CHAT_MESSAGE with an empty sender and an empty message:
\* version, type, sender length, message length
EmptyChat == <<1, 0>> \o PackU16(0) \o PackU16(0)

\* a control packet of type 1 (set peer id) inside a reliable packet, as the
\* server builds it: the new peer id is the payload
ReliableSetPeerId(channel, seqnum, new_peer_id) ==
    PackU32(protocol_id) \o PackU16(ServerPeerId) \o PackU8(channel) \o PackU8(3)
        \o PackU16(seqnum) \o PackU8(0) \o PackU8(1) \o PackU16(new_peer_id)

\* a reliable original packet on a channel, as the server builds it
ReliableOriginal(channel, seqnum, data) ==
    PackU32(protocol_id) \o PackU16(ServerPeerId) \o PackU8(channel) \o PackU8(3)
        \o PackU16(seqnum) \o PackU8(1) \o data

\* the datagrams the socket delivers: reliable originals (a TIME_OF_DAY without
\* data, whose handler raises struct.error, and a chat message) on two
\* channels, the first chunk of a two-chunk split sequence, a set-peer-id
\* control packet inside a reliable one, an ACK, a TIME_OF_DAY without data and
\* without protocol header, and a single byte
Datagrams ==
    {ReliableOriginal(channel, 5, PackU16(TIME_OF_DAY)) : channel \in {0, 1}}
        \cup {ReliableOriginal(0, 5, PackU16(CHAT_MESSAGE) \o EmptyChat),
              create_reliable_split_packet(ServerPeerId, 6, 1, 2, 0, <<1>>),
              ReliableSetPeerId(0, 7, 9),
              create_ack_packet(ServerPeerId, 0, 65500),
              PackU16(TIME_OF_DAY),
              <<9>>}

\* a loop that an exception raised in a handler ends
ExceptionEscapes(raised) == IF raised THEN "none" ELSE "loop"

\* "except Exception as e: if self.running: logger.error(...)": whether the
\* handling raised or not, the while loop goes on to its next iteration
NextIteration(raised) == "loop"

\* _handle_time_of_day: struct.unpack(">H", data[0:2]) and
\* struct.unpack(">f", data[2:6]) raise on data of fewer than 6 bytes
TimeOfDayRaises(data) == Len(data) < 6

\* _handle_chat_message up to its loop: the text of the message, for a payload
\* that holds the two length fields (sender and message empty)
ChatText(data) == IF data = EmptyChat THEN "" ELSE "?"

\* one entry of the record of what the loop did
LoopEvent(what, reliable, channel, seqnum, peer_id, raised) ==
    [what |-> what, reliable |-> reliable, channel |-> channel, seqnum |-> seqnum,
     peer_id |-> peer_id, raised |-> raised]

\* datagrams read so far
Received == Cardinality({i \in DOMAIN events : events[i].what = "recv"})

\* a loop that takes the peer id from a control packet of any type
PeerIdOfAnyControl(ctrl_type, payload, peer_id) ==
    IF Len(payload) >= 2 THEN UnpackU16(Slice(payload, 0, 2)) ELSE peer_id

\* the peer id after a control packet: "if p.ctrl_type == 1 and
\* len(p.payload) >= 2: self.state.peer_id = struct.unpack(">H", p.payload[0:2])[0]"
NewPeerId(ctrl_type, payload, peer_id) ==
    IF ctrl_type = 1 /\ Len(payload) >= 2 THEN UnpackU16(Slice(payload, 0, 2))
    ELSE peer_id

\* sock.recvfrom returns data: packets_received, Protocol.parse, and where the
\* loop goes with the result: a reliable packet to send_ack, a direct command
\* to the command processor, a control packet of type 1 sets the peer id;
\* anything else, parse's None and its IndexError included, ends the iteration
LoopRecv(data) ==
    /\ tpc = "recv"
    /\ sock = "open"
    /\ Received < MaxReceived
    /\ LET p == parse(data)
           reliable == p.type = "reliable"
       IN  /\ events' = Append(events,
                  LoopEvent("recv", reliable,
                            IF reliable THEN p.content.channel ELSE None,
                            IF reliable THEN p.content.seqnum ELSE None, None, FALSE))
           /\ rx' = IF p.type \in {"reliable", "direct_command"} THEN p ELSE NoDatagram
           /\ tpc' = CASE p.type = "reliable" -> "send_ack"
                       [] p.type = "direct_command" -> "process"
                       [] OTHER -> "loop"
           /\ st' = [st EXCEPT !.packets_received = @ + 1,
                               !.peer_id = IF p.type = "control"
                                           THEN NewPeerId(p.content.ctrl_type,
                                                          p.content.payload, @)
                                           ELSE @]
    /\ UNCHANGED <<register_mode, sock, running, wire, denied, nodedefs, callerVars, tcmd,
                   inbound, acks, keepalives, splitVars, chatVars, besideLoop>>

\* Connection.send_ack: the ACK goes out unless building it (no peer id) or
\* sending it (no socket) raises, which send_ack logs and swallows
LoopSendAck ==
    /\ tpc = "send_ack"
    /\ LET sent == sock = "open" /\ st.peer_id # None
       IN  /\ events' = IF sent
                        THEN Append(events, LoopEvent("ack", TRUE, rx.content.channel,
                                                      rx.content.seqnum, st.peer_id, FALSE))
                        ELSE events
           /\ acks' = IF sent THEN acks + 1 ELSE acks
    /\ tpc' = "process"
    /\ UNCHANGED <<st, register_mode, sock, running, wire, denied, nodedefs, callerVars,
                   tcmd, inbound, keepalives, rx, splitVars, chatVars, besideLoop>>

\* command_processor(command_id, data), for the commands of Datagrams: a
\* TIME_OF_DAY, a CHAT_MESSAGE that goes to the chat handlers, or a command
\* without handler
LoopProcessCommand(reliable, channel, seqnum, command_id, data) ==
    LET run == ChatLoop(chat_message_handlers, ChatText(data), 1, <<>>)
        raised == CASE command_id = TIME_OF_DAY -> TimeOfDayRaises(data)
                    [] command_id = CHAT_MESSAGE -> run.outcome = "raised"
                    [] OTHER -> FALSE
    IN  /\ events' = Append(events, LoopEvent("process", reliable, channel, seqnum, None,
                                              raised))
        /\ IF command_id = CHAT_MESSAGE
           THEN chat_calls' = run.calls /\ chat_outcome' = run.outcome
           ELSE UNCHANGED <<chat_calls, chat_outcome>>
        /\ tpc' = NextIteration(raised)
        /\ UNCHANGED <<st, splitVars>>

\* the loop's dispatch on the parsed packet: an original payload and a direct
\* command go to the command processor, a split chunk to _handle_split_packet,
\* a control payload of type 1 sets the peer id
LoopProcess ==
    /\ tpc = "process"
    /\ IF rx.type = "direct_command"
       THEN LoopProcessCommand(FALSE, None, None, rx.content.command_id, rx.content.data)
       ELSE LET p == rx.content.payload
            IN  CASE "command_id" \in DOMAIN p ->
                         LoopProcessCommand(TRUE, rx.content.channel, rx.content.seqnum,
                                            p.command_id, p.data)
                  [] "chunk_num" \in DOMAIN p ->
                         /\ HandleSplitPacket(p)
                         /\ scenario' = scenario
                         /\ events' = Append(events,
                                LoopEvent("process", TRUE, rx.content.channel,
                                          rx.content.seqnum, None, FALSE))
                         /\ tpc' = "loop"
                         /\ UNCHANGED <<st, chat_calls, chat_outcome>>
                  [] OTHER ->
                         /\ st' = [st EXCEPT !.peer_id =
                                      NewPeerId(p.ctrl_type, p.payload, @)]
                         /\ tpc' = "loop"
                         /\ UNCHANGED <<events, splitVars, chat_calls, chat_outcome>>
    /\ rx' = NoDatagram
    /\ UNCHANGED <<register_mode, sock, running, wire, denied, nodedefs, callerVars, tcmd,
                   inbound, acks, keepalives, chat_message_handlers, besideLoop>>

\* the session state after a connect() that returned True: handshake, INIT,
\* SRP_BYTES_A, SRP_BYTES_M, INIT2 and GOTBLOCKS sent; HELLO, SRP_BYTES_S_B,
\* AUTH_ACCEPT and NODEDEF received
JoinedState ==
    [FreshState EXCEPT !.state = JOINED, !.connected = TRUE, !.authenticated = TRUE,
                       !.peer_id = 7, !.srp_user = TRUE,
                       !.sequence_number = InitialSequenceNumber + 5,
                       !.packets_sent = 6, !.packets_received = 5,
                       !.has_node_definitions = TRUE]

\* the reliable datagrams that connect() sent
JoinedWire ==
    [i \in 1..5 |->
         ReliablePacket(7, InitialSequenceNumber + i - 1,
                        <<"INIT", "SRP_BYTES_A", "SRP_BYTES_M", "INIT2", "GOTBLOCKS">>[i])]

\* a joined client, its receive thread at the top of the loop, with or without
\* a chat handler that raises
InitLoop ==
    /\ IdleExcept("loop+client+chat")
    /\ st = JoinedState
    /\ register_mode = FALSE
    /\ sock = "open"
    /\ running = TRUE
    /\ pc = "idle"
    /\ ret = "user"
    /\ tpc = "loop"
    /\ tcmd = NoCommand
    /\ wire = JoinedWire
    /\ acks = 4
    /\ keepalives = 0
    /\ nodedefs = 1
    /\ entry = None
    /\ result = NoResult
    /\ connects = 1
    /\ sends = 0
    /\ inbound = 4
    /\ denied = {}
    /\ chat_message_handlers \in {<<>>, <<"raise">>, <<"false">>}
    /\ chat_calls = <<>>
    /\ chat_outcome = "none"
    /\ rx = NoDatagram
    /\ events = <<>>

NextLoop ==
    \/ CallDisconnect
    \/ StopReceiver
    \/ Join
    \/ SendDisconnect
    \/ CloseSocket
    \/ ClearFlags
    \/ DisconnectReset
    \/ DisconnectReturn
    \/ Resume
    \/ ThreadLoop
    \/ ThreadRecvNothing
    \/ \E data \in Datagrams : LoopRecv(data)
    \/ LoopSendAck
    \/ LoopProcess

SpecLoop == InitLoop /\ [][NextLoop]_vars

(* ------------------------------------------------------------------ *)
(* Callback: event subscriptions                                        *)
(* ------------------------------------------------------------------ *)

\* the callables a user passes to register
Callables == {"f", "g"}

\* a value that is not callable
NotCallable == "not_a_function"

\* an event name outside SUPPORTED_EVENTS
UnsupportedEvent == "invalid_event"

\* str(uuid.uuid4()): the n-th fresh token
uuid4(n) == <<"t0", "t1", "t2", "t3", "t4">>[n + 1]

\* a string that is no token of any handler
UnknownToken == "no-such-token"

\* isinstance(token_or_callback, str): tokens are strings, callables are not
IsStr(token_or_callback) == token_or_callback \notin Callables

\* the payload _send serialises: its action and its event
CallbackMessage(action, event) == action \o ":" \o event

\* the chat command _ensure_code_form_open sends once
WarmUp == "CHAT_MESSAGE(/miney form)"

\* Callback._send: nothing when the client is not authenticated; otherwise
\* _ensure_code_form_open (the warm-up chat command once, then a wait in which
\* the receive thread may see the form: shown), then send_formspec_response
CallbackSend(payload, shown) ==
    IF SendRefused(st)
    THEN UNCHANGED <<st, wire, code_form>>
    ELSE LET warm == ~code_form.shown /\ ~code_form.warmup_sent
             s == IF warm THEN SendState(st) ELSE st
             w == IF warm THEN SendWire(st, wire, WarmUp) ELSE wire
         IN  /\ code_form' = IF code_form.shown THEN code_form
                             ELSE [shown |-> shown, warmup_sent |-> TRUE]
             /\ st' = SendState(s)
             /\ wire' = SendWire(s, w, payload)

\* register tells the server only the first handler of an event (here: one
\* handler per call)
EveryHandler(handlers) == Len(handlers) >= 1

\* Callback.register: if len(self._event_handlers[event]) == 1
FirstHandler(handlers) == Len(handlers) = 1

\* Callback.register(event, callback): ValueError for an unsupported event or
\* a callback that is not callable; otherwise the handler is stored under a
\* fresh token and the first handler of the event is told to the server
Register(event, callback, shown) ==
    /\ IF event \notin SUPPORTED_EVENTS \/ callback = NotCallable
       THEN UNCHANGED <<st, wire, callbackVars>>
       ELSE /\ next_token < MaxTokens
            /\ next_token' = next_token + 1
            /\ event_handlers' =
                   [event_handlers EXCEPT ![event] =
                        Append(@, [token |-> uuid4(next_token), callback |-> callback])]
            /\ IF FirstHandler(event_handlers'[event])
               THEN CallbackSend(CallbackMessage("register", event), shown)
               ELSE UNCHANGED <<st, wire, code_form>>
    /\ UNCHANGED <<sock, sessionRest, besideCallback>>

\* Callback.unregister, removed_key: the token if it is a key of handlers, or
\* the key of the first handler that is the callback; 0 for None
RemovedKey(handlers, token_or_callback) ==
    LET found == {i \in DOMAIN handlers :
                      IF IsStr(token_or_callback)
                      THEN handlers[i].token = token_or_callback
                      ELSE handlers[i].callback = token_or_callback}
    IN  IF found = {} THEN 0 ELSE CHOOSE i \in found : \A j \in found : i <= j

\* handlers.pop(removed_key, None)
Popped(handlers, i) ==
    IF i = 0 THEN handlers
    ELSE SubSeq(handlers, 1, i - 1) \o SubSeq(handlers, i + 1, Len(handlers))

\* Callback.unregister(event, token_or_callback): nothing for an event
\* without handlers; otherwise the handler found is removed, and when none
\* remains the event's entry goes and the server is told
Unregister(event, token_or_callback, shown) ==
    /\ LET handlers == IF event \in SUPPORTED_EVENTS THEN event_handlers[event]
                       ELSE <<>>
       IN  IF handlers = <<>>
           THEN UNCHANGED <<st, wire, callbackVars>>
           ELSE LET rest == Popped(handlers, RemovedKey(handlers, token_or_callback))
                IN  /\ event_handlers' = [event_handlers EXCEPT ![event] = rest]
                    /\ next_token' = next_token
                    /\ IF rest # <<>>
                       THEN UNCHANGED <<st, wire, code_form>>
                       ELSE CallbackSend(CallbackMessage("unregister", event), shown)
    /\ UNCHANGED <<sock, sessionRest, besideCallback>>

InitCallback ==
    /\ IdleExcept("callback")
    /\ event_handlers = NoHandlersYet
    /\ next_token = 0
    /\ code_form = NoCodeForm

\* what a user passes as event, as callback and as token_or_callback
EventArgs == SUPPORTED_EVENTS \cup {UnsupportedEvent}

CallbackArgs == Callables \cup {NotCallable}

TokenArgs == {uuid4(n) : n \in 0..(MaxTokens - 1)} \cup {UnknownToken} \cup Callables

NextCallback ==
    \/ SessionEstablished
    \/ SessionAuthenticated
    \/ \E event \in EventArgs, callback \in CallbackArgs, shown \in BOOLEAN :
           Register(event, callback, shown)
    \/ \E event \in EventArgs, token_or_callback \in TokenArgs, shown \in BOOLEAN :
           Unregister(event, token_or_callback, shown)

SpecCallback == InitCallback /\ [][NextCallback]_vars

(* ------------------------------------------------------------------ *)
(* Connection._handle_split_packet: any chunk                           *)
(* ------------------------------------------------------------------ *)

\* the split chunks a datagram can carry under split sequence number 1:
\* chunk_count and chunk_num are independent 16-bit fields of the header
AnyChunks ==
    {SplitPacketPayload(1, count, num, data) :
         count \in 0..MaxChunks, num \in 0..MaxChunks, data \in ChunkData}

\* the receive loop hands a split chunk to _handle_split_packet; what it
\* raises is caught by the loop
ReceiveSplitChunk(p) ==
    /\ Len(calls) < MaxCalls
    /\ HandleSplitPacket(p)
    /\ UNCHANGED <<scenario, besideSplit>>

InitAnyChunk ==
    /\ IdleExcept("split")
    /\ IdleSplit

NextAnyChunk == \E p \in AnyChunks : ReceiveSplitChunk(p)

SpecAnyChunk == InitAnyChunk /\ [][NextAnyChunk]_vars

(* ------------------------------------------------------------------ *)
(* Connection._receive_and_keep_alive_loop: time                        *)
(* ------------------------------------------------------------------ *)

\* keep_alive_interval = 2.0
keep_alive_interval == 2

\* self.sock.settimeout(1.0)
RecvTimeout == 1

\* _cleanup_split_packets: current_time - v['received_time'] > 30
SplitPacketMaxAge == 30

\* Connection._cleanup_split_packets at current_time
cleanup_split_packets(sp, current_time) ==
    LET expired == {k \in DOMAIN sp :
                        current_time - sp[k].received_time > SplitPacketMaxAge}
    IN  [k \in DOMAIN sp \ expired |-> sp[k]]

\* the top of a loop iteration: when the interval has passed and the client is
\* connected with a peer id, the keep-alive is sent, the expired buffers are
\* removed and last_keep_alive_time is set (a failing sendto skips both);
\* then the loop goes on to recvfrom
TimedKeepAlive ==
    /\ tpc = "loop"
    /\ running
    /\ tpc' = "recv"
    /\ IF now - last_keep_alive_time >= keep_alive_interval
            /\ st.connected /\ st.peer_id # None /\ sock = "open"
       THEN /\ keepalives' = keepalives + 1
            /\ st' = [st EXCEPT !.packets_sent = @ + 1]
            /\ split_packets' = cleanup_split_packets(split_packets, now)
            /\ last_keep_alive_time' = now
       ELSE UNCHANGED <<keepalives, st, split_packets, last_keep_alive_time>>
    /\ UNCHANGED <<now, calls, scenario, besideTime, nodedefs, register_mode, sock,
                   running, wire, denied, callerVars, tcmd, inbound, acks>>

\* recvfrom times out after a second: next iteration
TimedRecvTimeout ==
    /\ tpc = "recv"
    /\ now + RecvTimeout <= MaxTime
    /\ now' = now + RecvTimeout
    /\ tpc' = "loop"
    /\ UNCHANGED <<last_keep_alive_time, splitVars, besideTime, nodedefs, st,
                   register_mode, sock, running, wire, denied, callerVars, tcmd,
                   inbound, acks, keepalives>>

\* the chunks of a two-chunk split sequence, one byte each
TimedChunks == {SplitPacketPayload(1, 2, num, <<1>>) : num \in {0, 1}}

\* recvfrom returns a reliable split chunk: packets_received, send_ack, then
\* _handle_split_packet; next iteration
TimedRecvChunk(p) ==
    /\ tpc = "recv"
    /\ sock = "open"
    /\ inbound < MaxTimedChunks
    /\ Len(calls) < MaxCalls
    /\ inbound' = inbound + 1
    /\ st' = [st EXCEPT !.packets_received = @ + 1]
    /\ acks' = acks + 1
    /\ HandleSplitPacket(p)
    /\ tpc' = "loop"
    /\ UNCHANGED <<timeVars, scenario, besideTime, nodedefs, register_mode, sock,
                   running, wire, denied, callerVars, tcmd, keepalives>>

\* a joined client, its receive thread at the top of the loop, which has just
\* started
InitTimed ==
    /\ IdleExcept("time+client+split")
    /\ IdleSplit
    /\ IdleTime
    /\ st = JoinedState
    /\ register_mode = FALSE
    /\ sock = "open"
    /\ running = TRUE
    /\ pc = "idle"
    /\ ret = "user"
    /\ tpc = "loop"
    /\ tcmd = NoCommand
    /\ wire = JoinedWire
    /\ acks = 0
    /\ keepalives = 0
    /\ nodedefs = 1
    /\ entry = None
    /\ result = NoResult
    /\ connects = 1
    /\ sends = 0
    /\ inbound = 0
    /\ denied = {}

NextTimed ==
    \/ TimedKeepAlive
    \/ TimedRecvTimeout
    \/ \E p \in TimedChunks : TimedRecvChunk(p)

SpecTimed == InitTimed /\ [][NextTimed]_vars

(* ------------------------------------------------------------------ *)
(* Connection.send_packet and send_split_packet                         *)
(* ------------------------------------------------------------------ *)

\* a byte string, by its length and its first byte: byte k is first + k
\* modulo 256
Bytes256(len, first) == IF len = 0 THEN NoBytes ELSE [len |-> len, first |-> first % 256]

\* data[a:b] for 0 <= a, clipped as Python clips it
BytesSlice(data, a, b) ==
    LET hi == IF b < data.len THEN b ELSE data.len
        lo == IF a < hi THEN a ELSE hi
    IN  Bytes256(hi - lo, data.first + lo)

\* what is no byte string of the family
NotBytes == [len |-> -1, first |-> 0]

\* a + b for two byte strings
BytesConcat(a, b) ==
    IF a = NotBytes \/ b = NotBytes THEN NotBytes
    ELSE IF a.len = 0 THEN b
    ELSE IF b.len = 0 THEN a
    ELSE IF b.first = (a.first + a.len) % 256 THEN [len |-> a.len + b.len, first |-> a.first]
    ELSE NotBytes

\* send_packet: HEADER_SIZE = 11, MAX_SINGLE_PACKET_SIZE = 512 - HEADER_SIZE
MAX_SINGLE_PACKET_SIZE == 512 - 11

\* send_split_packet: HEADER_SIZE = 17, MAX_CHUNK_SIZE = 512 - HEADER_SIZE
MAX_CHUNK_SIZE == 512 - 17

\* send_split_packet: total_chunks > 65535 is refused
MaxTotalChunks == 65535

\* the split sequence number wraps: % 65536
SplitSeqModulus == 65536

\* the reliable original datagram of send_packet: the fields of its header,
\* its payload and its length in bytes
OriginalDatagram(peer_id, sequence_number, data) ==
    [type |-> "original", peer_id |-> peer_id, seqnum |-> sequence_number,
     split_seqnum |-> 0, chunk_count |-> 0, chunk_num |-> 0, data |-> data,
     size |-> Len(create_reliable_original_packet(peer_id, sequence_number, <<>>))
                  + data.len]

\* the reliable split datagram of send_split_packet
SplitDatagram(peer_id, sequence_number, sseq, total_chunks, chunk_num, chunk_data) ==
    [type |-> "split", peer_id |-> peer_id, seqnum |-> sequence_number,
     split_seqnum |-> sseq, chunk_count |-> total_chunks, chunk_num |-> chunk_num,
     data |-> chunk_data,
     size |-> Len(create_reliable_split_packet(peer_id, sequence_number, sseq,
                                               total_chunks, chunk_num, <<>>))
                  + chunk_data.len]

\* total_chunks = (len(data) + MAX_CHUNK_SIZE - 1) // MAX_CHUNK_SIZE
TotalChunks(data) == (data.len + MAX_CHUNK_SIZE - 1) \div MAX_CHUNK_SIZE

\* chunks that take one byte more than their share
OverlappingChunkOf(data, i) ==
    BytesSlice(data, i * MAX_CHUNK_SIZE, (i + 1) * MAX_CHUNK_SIZE + 1)

\* data[offset:offset + min(MAX_CHUNK_SIZE, len(data) - offset)]
ChunkOf(data, i) ==
    LET offset == i * MAX_CHUNK_SIZE
        rest == data.len - offset
    IN  BytesSlice(data, offset,
                   offset + (IF MAX_CHUNK_SIZE < rest THEN MAX_CHUNK_SIZE ELSE rest))

\* send_packet / send_split_packet returns: the call, whether the client was
\* connected with a peer id when it began, and its result are noted
Returned(s, value) ==
    [IdleSender EXCEPT !.returned = Append(s.returned,
                                           [data |-> s.data, value |-> value,
                                            connected |-> s.connected])]

\* Connection.send_packet(data) up to the first access to the sequence number:
\* refused when not connected; data that fits is built into an original
\* packet with the sequence number read now; longer data goes to
\* send_split_packet, which refuses more than 65535 chunks
SendPacket(t, data) ==
    LET s == [senders[t] EXCEPT !.data = data, !.connected = CanSend(st)]
    IN  /\ s.pc = "idle"
        /\ Len(s.returned) < MaxMessages
        /\ senders' =
               [senders EXCEPT ![t] =
                    IF ~CanSend(st) THEN Returned(s, FALSE)
                    ELSE IF data.len > MAX_SINGLE_PACKET_SIZE
                    THEN IF TotalChunks(data) > MaxTotalChunks THEN Returned(s, FALSE)
                         ELSE [s EXCEPT !.pc = "split_seqnum",
                                        !.total_chunks = TotalChunks(data)]
                    ELSE [s EXCEPT !.pc = "load",
                                   !.packet = OriginalDatagram(st.peer_id,
                                                               st.sequence_number, data)]]
        /\ UNCHANGED <<next_split_seqnum, datagrams, sock, st, wire, sessionRest,
                       besideSend>>

\* _get_next_split_seqnum: seqnum = self.split_seqnum, and the read of the
\* assignment that follows
GetNextSplitSeqnum(t) ==
    /\ senders[t].pc = "split_seqnum"
    /\ senders' = [senders EXCEPT ![t].split_seqnum = next_split_seqnum,
                                  ![t].loaded = next_split_seqnum,
                                  ![t].pc = "split_store"]
    /\ UNCHANGED <<next_split_seqnum, datagrams, sock, st, wire, sessionRest, besideSend>>

\* self.split_seqnum = (self.split_seqnum + 1) % 65536, the write; the loop
\* over the chunks begins
StoreSplitSeqnum(t) ==
    /\ senders[t].pc = "split_store"
    /\ next_split_seqnum' = (senders[t].loaded + 1) % SplitSeqModulus
    /\ senders' = [senders EXCEPT ![t].i = 0, ![t].pc = "chunk"]
    /\ UNCHANGED <<datagrams, sock, st, wire, sessionRest, besideSend>>

\* for i in range(total_chunks): the chunk is cut and built into a split
\* packet with the sequence number read now; after the last chunk: return True
BuildChunk(t) ==
    LET s == senders[t]
    IN  /\ s.pc = "chunk"
        /\ senders' =
               [senders EXCEPT ![t] =
                    IF s.i >= s.total_chunks THEN Returned(s, TRUE)
                    ELSE [s EXCEPT !.pc = "load",
                                   !.packet = SplitDatagram(st.peer_id, st.sequence_number,
                                                            s.split_seqnum, s.total_chunks,
                                                            s.i, ChunkOf(s.data, s.i))]]
        /\ UNCHANGED <<next_split_seqnum, datagrams, sock, st, wire, sessionRest,
                       besideSend>>

\* self.state.sequence_number = (self.state.sequence_number + 1) % 65536: the
\* read
LoadSequenceNumber(t) ==
    /\ senders[t].pc = "load"
    /\ senders' = [senders EXCEPT ![t].loaded = st.sequence_number, ![t].pc = "store"]
    /\ UNCHANGED <<next_split_seqnum, datagrams, sock, st, wire, sessionRest, besideSend>>

\* the same statement: the write
StoreSequenceNumber(t) ==
    /\ senders[t].pc = "store"
    /\ st' = [st EXCEPT !.sequence_number = (senders[t].loaded + 1) % SeqModulus]
    /\ senders' = [senders EXCEPT ![t].pc = "sendto"]
    /\ UNCHANGED <<next_split_seqnum, datagrams, sock, wire, sessionRest, besideSend>>

\* self.sock.sendto(packet, ...) and packets_sent; send_packet returns True,
\* send_split_packet goes on with the next chunk
Sendto(t) ==
    LET s == senders[t]
    IN  /\ s.pc = "sendto"
        /\ sock = "open"
        /\ datagrams' = Append(datagrams, s.packet)
        /\ st' = [st EXCEPT !.packets_sent = @ + 1]
        /\ senders' =
               [senders EXCEPT ![t] =
                    IF s.packet.type = "original" THEN Returned(s, TRUE)
                    ELSE [s EXCEPT !.i = @ + 1, !.pc = "chunk", !.packet = <<>>]]
        /\ UNCHANGED <<next_split_seqnum, sock, wire, sessionRest, besideSend>>

\* the steps of a thread inside send_packet
SendSteps(t) ==
    \/ GetNextSplitSeqnum(t)
    \/ StoreSplitSeqnum(t)
    \/ BuildChunk(t)
    \/ LoadSequenceNumber(t)
    \/ StoreSequenceNumber(t)
    \/ Sendto(t)

\* Connection.send_ack and the keep-alive of the receive loop: a control
\* datagram goes out, the sequence number is not touched
SendControl ==
    /\ st.connected /\ st.peer_id # None
    /\ sock = "open"
    /\ keepalives < MaxKeepAlives
    /\ keepalives' = keepalives + 1
    /\ st' = [st EXCEPT !.packets_sent = @ + 1]
    /\ UNCHANGED <<sendVars, besideSend, nodedefs, register_mode, sock, running, wire,
                   denied, callerVars, tpc, tcmd, inbound, acks>>

\* the payloads handed to send_packet: empty, one byte, the longest single
\* packet, the shortest split one, two whole chunks, one byte more, enough
\* chunks for the sequence number to wrap, and one byte more than 65535 chunks
SendData ==
    {Bytes256(len, 250) :
         len \in {0, 1, MAX_SINGLE_PACKET_SIZE, MAX_SINGLE_PACKET_SIZE + 1,
                  2 * MAX_CHUNK_SIZE, 2 * MAX_CHUNK_SIZE + 1, 36 * MAX_CHUNK_SIZE + 1,
                  MaxTotalChunks * MAX_CHUNK_SIZE + 1}}

\* a client not yet connected; 65535 split messages may have gone out before
InitSend ==
    /\ IdleExcept("send")
    /\ senders = [t \in SendThreads |-> IdleSender]
    /\ next_split_seqnum \in {0, SplitSeqModulus - 1}
    /\ datagrams = <<>>

\* one thread sends
NextSend ==
    \/ SessionEstablished
    \/ SendControl
    \/ \E data \in SendData : SendPacket("caller", data)
    \/ SendSteps("caller")

SpecSend == InitSend /\ [][NextSend]_vars

\* the payloads of the caller: a single packet and a split one
RaceData == {Bytes256(len, 250) : len \in {1, MAX_SINGLE_PACKET_SIZE + 1}}

\* the payload of a handler of the receive thread: a short command
HandlerData == {Bytes256(1, 250)}

\* the caller thread and the receive thread send
NextSendRace ==
    \/ SessionEstablished
    \/ \E data \in RaceData : SendPacket("caller", data)
    \/ \E data \in HandlerData : SendPacket("receiver", data)
    \/ \E t \in SendThreads : SendSteps(t)

SpecSendRace == InitSend /\ [][NextSendRace]_vars

(* ------------------------------------------------------------------ *)
(* Protocol.parse on datagrams as they arrive                           *)
(* ------------------------------------------------------------------ *)

\* data[:k]
Prefix(data, k) == SubSeq(data, 1, IF k < Len(data) THEN k ELSE Len(data))

\* data with the byte at index i replaced
WithByte(data, i, v) == [k \in 1..Len(data) |-> IF k = i + 1 THEN v ELSE data[k]]

\* datagrams in every layout parse knows, as the server builds them: a
\* reliable original, a reliable split chunk, a control packet inside a
\* reliable one, an ACK, a keep-alive (control type 2) and a disconnect
WellFormed ==
    {create_reliable_original_packet(ServerPeerId, 65500, PackU16(TIME_OF_DAY) \o <<0>>),
     create_reliable_split_packet(ServerPeerId, 65500, 1, 2, 0, <<7>>),
     ReliableSetPeerId(0, 65500, 9),
     create_ack_packet(ServerPeerId, 0, 65500),
     create_keep_alive_packet(ServerPeerId),
     create_disconnect_packet(ServerPeerId)}

\* values of a packet-type byte (offset 7) and of a payload-type byte
\* (offset 10), known and unknown ones
TypeBytes == {0, 1, 2, 3, 4, 255}

\* the same datagrams with another packet type or another payload type
Retyped ==
    WellFormed
        \cup {WithByte(d, 7, v) : d \in WellFormed, v \in TypeBytes}
        \cup {WithByte(d, 10, v) : d \in {w \in WellFormed : Len(w) > 10}, v \in TypeBytes}

\* datagrams that start with the protocol id: the ones above, whole and cut
\* off after any number of bytes from 4 on
Framed == {Prefix(d, k) : d \in Retyped, k \in 4..18}

\* datagrams that do not start with the protocol id: empty, of 1, 2 and 3
\* bytes (among them the first bytes of the protocol id), and longer ones
Unframed ==
    {<<>>, <<9>>, PackU16(TIME_OF_DAY), PackU16(CHAT_MESSAGE) \o <<0>>,
     Prefix(PackU32(protocol_id), 2), Prefix(PackU32(protocol_id), 3),
     PackU32(protocol_id + 1), PackU16(TIME_OF_DAY) \o PackU32(protocol_id),
     PackU16(CHAT_MESSAGE) \o EmptyChat}

\* sock.recvfrom returns a datagram
Recvfrom(data) == Built("recvfrom", <<>>, data)

InitDatagram ==
    /\ IdleExcept("codec")
    /\ frame = NoFrame

NextDatagram ==
    \/ \E data \in Framed : Recvfrom(data)
    \/ \E data \in Unframed : Recvfrom(data)
    \/ Parse

SpecDatagram == InitDatagram /\ [][NextDatagram]_vars

\* the datagrams the socket delivers to the receive loop below: the ones
\* without the protocol id, a reliable original and an ACK
DirectDatagrams ==
    Unframed \cup {ReliableOriginal(0, 5, PackU16(TIME_OF_DAY)),
                   create_ack_packet(ServerPeerId, 0, 65500)}

\* the receive loop of a joined client, next to a caller that may disconnect
NextDirect ==
    \/ CallDisconnect
    \/ StopReceiver
    \/ Join
    \/ SendDisconnect
    \/ CloseSocket
    \/ ClearFlags
    \/ DisconnectReset
    \/ DisconnectReturn
    \/ Resume
    \/ ThreadLoop
    \/ ThreadRecvNothing
    \/ \E data \in DirectDatagrams : LoopRecv(data)
    \/ LoopSendAck
    \/ LoopProcess

SpecDirect == InitLoop /\ [][NextDirect]_vars

(* ------------------------------------------------------------------ *)
(* The handshake commands, handled by the receive thread alone          *)
(* ------------------------------------------------------------------ *)

\* auth-method bitmasks of a HELLO, with and without the bit of FIRST_SRP
HelloMasks == {0, 3, AUTH_FIRST_SRP, 7}

\* the commands of the handshake as the server can send them: HELLO with a
\* bitmask or with a payload of fewer than 5 bytes (arg None), AUTH_ACCEPT,
\* SRP_BYTES_S_B, ACCESS_DENIED with a reason code, and NODEDEF with a blob
\* that decompresses (0), one that does not (1) and a payload cut off inside
\* its length field (2)
HandshakeCommands ==
    {[cmd |-> "HELLO", arg |-> m] : m \in HelloMasks \cup {None}}
        \cup {[cmd |-> "AUTH_ACCEPT", arg |-> 0], [cmd |-> "SRP_BYTES_S_B", arg |-> 0]}
        \cup {[cmd |-> "ACCESS_DENIED", arg |-> c] : c \in DeniedCodes}
        \cup {[cmd |-> "NODEDEF", arg |-> a] : a \in {0, 1, 2}}

\* the session state once connect() has sent INIT: handshake sent and
\* answered, peer id assigned
InitSentState ==
    [FreshState EXCEPT !.state = CONNECTING, !.connected = TRUE, !.peer_id = 7,
                       !.sequence_number = InitialSequenceNumber + 1,
                       !.packets_sent = 2, !.packets_received = 1]

\* connect(register) polls; the receive thread is at the top of its loop
InitHandshake ==
    /\ IdleExcept("client")
    /\ st = InitSentState
    /\ register_mode \in BOOLEAN
    /\ sock = "open"
    /\ running = TRUE
    /\ pc = "poll"
    /\ ret = "user"
    /\ tpc = "loop"
    /\ tcmd = NoCommand
    /\ wire = <<ReliablePacket(7, InitialSequenceNumber, "INIT")>>
    /\ acks = 0
    /\ keepalives = 0
    /\ nodedefs = 0
    /\ entry = None
    /\ result = NoResult
    /\ connects = 1
    /\ sends = 0
    /\ inbound = 0
    /\ denied = {}

NextHandshake ==
    \/ ThreadLoop
    \/ ThreadRecvNothing
    \/ \E c \in HandshakeCommands : ThreadRecv(c)
    \/ HandleHello
    \/ HelloAuth
    \/ HandleAuthAccept
    \/ SendInit2
    \/ AccessDeniedReason
    \/ AccessDeniedCode
    \/ AccessDeniedState
    \/ HandleSrpBytesSB
    \/ HandleNodedef
    \/ NodedefBlob

SpecHandshake == InitHandshake /\ [][NextHandshake]_vars

(* ------------------------------------------------------------------ *)
(* SRPClient: the SRP-6a exchange                                       *)
(* ------------------------------------------------------------------ *)

\* the SRP group, scaled down from the 2048-bit N: a prime, and the generator
N == 11
g == 2

\* digests, scaled down from the 32 bytes of sha256 to one byte below this
HashModulus == 7

\* hash_alg(data).digest(), scaled down: one byte that depends on every byte
\* of data and on its length
Hash(data) ==
    LET RECURSIVE Weighted(_)
        Weighted(i) == IF i > Len(data) THEN 0 ELSE i * data[i] + Weighted(i + 1)
    IN  <<(Weighted(1) + 3 * Len(data)) % HashModulus>>

\* int.from_bytes(b, byteorder='big'), for at most one byte
FromBytes(b) == IF Len(b) = 0 THEN 0 ELSE b[1]

\* v.to_bytes((v.bit_length() + 7) // 8, byteorder='big'), below 256: no byte
\* for zero
ToBytes(v) == IF v = 0 THEN <<>> ELSE <<v>>

\* pow(base, exp, modulus)
RECURSIVE pow(_, _, _)
pow(base, exp, modulus) ==
    IF exp = 0 THEN 1 % modulus ELSE (base * pow(base, exp - 1, modulus)) % modulus

\* a ^ b, for one bit each and for bytes below 8
Xor(a, b) ==
    LET bit(p, q) == (p + q) % 2
    IN  bit(a % 2, b % 2) + 2 * bit((a \div 2) % 2, (b \div 2) % 2)
            + 4 * bit((a \div 4) % 2, (b \div 4) % 2)

\* (username.lower() + ":" + password).encode("utf-8"), for user "u", password "p"
Credentials == <<117, 58, 112>>

\* SRPClient._calculate_x
calculate_x(salt) == FromBytes(Hash(salt \o Hash(Credentials)))

\* SRPClient._calculate_u
calculate_u(A, B) == FromBytes(Hash(ToBytes(A) \o ToBytes(B)))

\* SRPClient._calculate_k: N and g, both in the length of N
calculate_k == FromBytes(Hash(<<N>> \o <<g>>))

\* SRPClient._calculate_M
calculate_M(salt, A, B, K) ==
    LET h_xor == <<Xor(Hash(<<N>>)[1], Hash(<<g>>)[1])>>
        h_I == Hash(<<117>>)
    IN  Hash(h_xor \o h_I \o salt \o ToBytes(A) \o ToBytes(B) \o K)

\* SRPClient._calculate_H_AMK
calculate_H_AMK(A, M, K) == Hash(ToBytes(A) \o M \o K)

\* None in a field that holds bytes later: equal to no byte string
NoDigest == <<None>>

\* SRPClient.__init__: the private value a, the public value A, nothing of
\* the exchange yet
SRPClient(id, a) ==
    [id |-> id, a |-> a, A |-> pow(g, a, N), salt |-> NoDigest, B |-> None, u |-> None,
     S |-> None, K |-> NoDigest, M |-> NoDigest, H_AMK |-> NoDigest,
     authenticated |-> FALSE]

\* one entry of the record of the exchange
SrpEvent(what, user, B, proof, H, returned) ==
    [what |-> what, user |-> user.id, a |-> user.a, B |-> B, proof |-> proof, H |-> H,
     returned |-> returned]

SrpSteps == Len(srp_log)

\* SRPClient._random_bigint: random.randint(2, N - 1)
RandomBigints == 2..(N - 1)

\* LuantiClient.start_srp_auth: a new SRPClient replaces state.srp_user, and
\* SRP_BYTES_A goes out
StartSrpAuth(a) ==
    /\ SrpSteps < MaxSrpSteps
    /\ LET id == Cardinality({i \in DOMAIN srp_log : srp_log[i].what = "created"}) + 1
       IN  /\ srp_user' = SRPClient(id, a)
           /\ srp_log' = Append(srp_log,
                                SrpEvent("created", srp_user', None, NoDigest, NoDigest, FALSE))
    /\ UNCHANGED besideSrp

\* the check of B in process_challenge
InvalidB(B) == B % N = 0

\* SRPClient.process_challenge: the client after the call, whether it raised
\* or returned
process_challenge(user, salt, bytes_B) ==
    LET B == FromBytes(bytes_B)
        u == calculate_u(user.A, B)
        x == calculate_x(salt)
        v == pow(g, x, N)
        kv == (calculate_k * v) % N
        base == (B + N - kv) % N
        exp == user.a + u * x
        S == pow(base, exp, N)
        K == Hash(ToBytes(S))
        M == calculate_M(salt, user.A, B, K)
    IN  IF InvalidB(B)
        THEN [raised |-> TRUE, user |-> [user EXCEPT !.salt = salt, !.B = B]]
        ELSE IF u = 0
        THEN [raised |-> TRUE, user |-> [user EXCEPT !.salt = salt, !.B = B, !.u = u]]
        ELSE [raised |-> FALSE,
              user |-> [user EXCEPT !.salt = salt, !.B = B, !.u = u, !.S = S, !.K = K,
                                    !.M = M,
                                    !.H_AMK = calculate_H_AMK(user.A, M, K)]]

\* CommandHandler._handle_srp_bytes_s_b: process_challenge, then SRP_BYTES_M
\* with the proof; an exception (no SRPClient, or the challenge rejected) is
\* logged and nothing is sent
HandleChallenge(salt, bytes_B) ==
    /\ SrpSteps < MaxSrpSteps
    /\ IF srp_user = NoSrpUser
       THEN /\ srp_log' = Append(srp_log,
                    [what |-> "error", user |-> 0, a |-> None, B |-> FromBytes(bytes_B),
                     proof |-> NoDigest, H |-> NoDigest, returned |-> FALSE])
            /\ UNCHANGED srp_user
       ELSE LET done == process_challenge(srp_user, salt, bytes_B)
            IN  /\ srp_user' = done.user
                /\ srp_log' = Append(srp_log,
                       IF done.raised
                       THEN SrpEvent("rejected", srp_user, done.user.B, NoDigest, NoDigest,
                                     FALSE)
                       ELSE SrpEvent("proof", srp_user, done.user.B, done.user.M,
                                     done.user.H_AMK, FALSE))
    /\ UNCHANGED besideSrp

\* a comparison that accepts every proof
AnyProof(expected, H) == TRUE

\* if self.H_AMK == H_AMK
ProofMatches(expected, H) == expected = H

\* SRPClient.verify_session
verify_session(H) ==
    /\ SrpSteps < MaxSrpSteps
    /\ srp_user # NoSrpUser
    /\ LET matches == ProofMatches(srp_user.H_AMK, H)
       IN  /\ srp_user' = [srp_user EXCEPT !.authenticated = IF matches THEN TRUE ELSE @]
           /\ srp_log' = Append(srp_log,
                                SrpEvent("verify", srp_user', None, NoDigest, H, matches))
    /\ UNCHANGED besideSrp

\* salts and server public values B of a challenge: B zero (no byte), N, and
\* two values that differ by N
SrpSalts == {<<>>, <<1>>}
SrpBytesB == {<<>>, <<N>>, <<3>>, <<N + 3>>}

\* server proofs: every digest
Digests == {<<h>> : h \in 0..(HashModulus - 1)}

InitSrp ==
    /\ IdleExcept("srp")
    /\ srp_user = NoSrpUser
    /\ srp_log = <<>>

NextSrp ==
    \/ \E a \in RandomBigints : StartSrpAuth(a)
    \/ \E salt \in SrpSalts, bytes_B \in SrpBytesB : HandleChallenge(salt, bytes_B)
    \/ \E H \in Digests : verify_session(H)

SpecSrp == InitSrp /\ [][NextSrp]_vars

(* ------------------------------------------------------------------ *)
(* The receive loop on control packets that renumber the peer          *)
(* ------------------------------------------------------------------ *)

\* a control packet as the server builds it: header, packet type CONTROL,
\* the control type and its payload
ControlPacket(ctrl_type, payload) ==
    PackU32(protocol_id) \o PackU16(ServerPeerId) \o PackU8(0) \o PackU8(0)
        \o PackU8(ctrl_type) \o payload

\* a control packet inside a reliable packet, as the server builds it
ReliableControl(seqnum, ctrl_type, payload) ==
    PackU32(protocol_id) \o PackU16(ServerPeerId) \o PackU8(0) \o PackU8(3)
        \o PackU16(seqnum) \o PackU8(0) \o PackU8(ctrl_type) \o payload

\* payloads of a control packet: none, one byte, a peer id (256), a peer id
\* and one more byte (9)
PeerPayloads == {<<>>, <<1>>, PackU16(256), PackU16(9) \o <<0>>}

\* the datagrams the socket delivers: control packets of type 1 (set peer
\* id), bare and inside a reliable packet, with every payload; control
\* packets of type 2 with a payload of two bytes; a reliable original
PeerDatagrams ==
    {ControlPacket(1, payload) : payload \in PeerPayloads}
        \cup {ReliableControl(5, 1, payload) : payload \in PeerPayloads}
        \cup {ControlPacket(2, PackU16(256)), ReliableControl(5, 2, PackU16(256)),
              ReliableOriginal(0, 5, PackU16(TIME_OF_DAY))}

\* the keep-alive of the loop: create_keep_alive_packet(self.state.peer_id)
\* and sendto, when connected with a peer id
LoopKeepAlive ==
    /\ tpc = "recv"
    /\ keepalives < MaxKeepAlives
    /\ st.connected /\ st.peer_id # None
    /\ sock = "open"
    /\ keepalives' = keepalives + 1
    /\ st' = [st EXCEPT !.packets_sent = @ + 1]
    /\ events' = Append(events, LoopEvent("keep_alive", FALSE, None, None, st.peer_id,
                                          FALSE))
    /\ UNCHANGED <<register_mode, sock, running, wire, denied, nodedefs, callerVars, tpc,
                   tcmd, inbound, acks, rx, splitVars, chatVars, besideLoop>>

\* a joined client without chat handlers
InitPeer ==
    /\ InitLoop
    /\ chat_message_handlers = <<>>

\* the receive loop next to a caller that sends a chat message or disconnects
NextPeer ==
    \/ SendChatMessage
    \/ CallDisconnect
    \/ StopReceiver
    \/ Join
    \/ SendDisconnect
    \/ CloseSocket
    \/ ClearFlags
    \/ DisconnectReset
    \/ DisconnectReturn
    \/ Resume
    \/ ThreadLoop
    \/ ThreadRecvNothing
    \/ LoopKeepAlive
    \/ \E data \in PeerDatagrams : LoopRecv(data)
    \/ LoopSendAck
    \/ LoopProcess

SpecPeer == InitPeer /\ [][NextPeer]_vars

(* ------------------------------------------------------------------ *)
(* The client: connecting again                                         *)
(* ------------------------------------------------------------------ *)

\* connect() called on a client that has connected before
Reconnect(register) ==
    /\ pc = "idle"
    /\ connects >= MaxConnects
    /\ connects < MaxConnects + MaxReconnects
    /\ register_mode' = register
    /\ connects' = connects + 1
    /\ pc' = "connect_reset"
    /\ UNCHANGED <<besideClient, nodedefs, entry, st, sock, running, wire, denied, ret,
                   result, sends, threadVars>>

\* what the server sends in these runs
ReconnectCommands ==
    {[cmd |-> "PING", arg |-> 0], [cmd |-> "AUTH_ACCEPT", arg |-> 0]}
    \cup {[cmd |-> "ACCESS_DENIED", arg |-> c] : c \in DeniedCodes}

NextReconnect ==
    \/ \E register \in BOOLEAN : CallConnect(register)
    \/ \E register \in BOOLEAN : Reconnect(register)
    \/ ConnectReset
    \/ Establish
    \/ EstablishFailed
    \/ SendInit
    \/ Poll
    \/ PollReason
    \/ PollRaise
    \/ AfterPoll
    \/ Resume
    \/ CallDisconnect
    \/ StopReceiver
    \/ Join
    \/ SendDisconnect
    \/ CloseSocket
    \/ ClearFlags
    \/ DisconnectReset
    \/ DisconnectReturn
    \/ ThreadLoop
    \/ ThreadRecvNothing
    \/ \E c \in ReconnectCommands : ThreadRecv(c)
    \/ HandleAuthAccept
    \/ SendInit2
    \/ AccessDeniedReason
    \/ AccessDeniedCode
    \/ AccessDeniedState
    \/ HandlePing

SpecReconnect == Init /\ [][NextReconnect]_vars

(* ------------------------------------------------------------------ *)
(* The receive loop: acknowledgements                                   *)
(* ------------------------------------------------------------------ *)

\* the sequence numbers an ACK names: the one of the packet connect() sent
\* first, the one the next send uses, and one nothing was sent with
AckedSeqnums == {InitialSequenceNumber, InitialSequenceNumber + 5, 9}

\* ACK control packets from the server, on either channel
AckDatagrams ==
    {create_ack_packet(ServerPeerId, channel, seqnum) :
         channel \in {0, 1}, seqnum \in AckedSeqnums}

\* what arrives in these runs: ACKs, and a reliable command
AckRunDatagrams == AckDatagrams \cup {ReliableOriginal(0, 5, PackU16(TIME_OF_DAY))}

NextAck ==
    \/ SendChatMessage
    \/ Resume
    \/ ThreadLoop
    \/ ThreadRecvNothing
    \/ LoopKeepAlive
    \/ \E data \in AckRunDatagrams : LoopRecv(data)
    \/ LoopSendAck
    \/ LoopProcess

SpecAck == InitPeer /\ [][NextAck]_vars

(* ------------------------------------------------------------------ *)
(* Split chunks and a second connection                                 *)
(* ------------------------------------------------------------------ *)

\* the two chunks of one split message, split sequence number 1: together
\* they are a TIME_OF_DAY command
SplitHalves ==
    {create_reliable_split_packet(ServerPeerId, 6, 1, 2, 0, <<0>>),
     create_reliable_split_packet(ServerPeerId, 7, 1, 2, 1, <<TIME_OF_DAY>>)}

NextSplitReconnect ==
    \/ CallDisconnect
    \/ StopReceiver
    \/ Join
    \/ SendDisconnect
    \/ CloseSocket
    \/ ClearFlags
    \/ DisconnectReset
    \/ DisconnectReturn
    \/ Resume
    \/ \E register \in BOOLEAN : Reconnect(register)
    \/ ConnectReset
    \/ Establish
    \/ EstablishFailed
    \/ SendInit
    \/ Poll
    \/ PollReason
    \/ AfterPoll
    \/ ThreadLoop
    \/ ThreadRecvNothing
    \/ \E data \in SplitHalves : LoopRecv(data)
    \/ LoopSendAck
    \/ LoopProcess

SpecSplitReconnect == InitPeer /\ [][NextSplitReconnect]_vars

(* ------------------------------------------------------------------ *)
(* Lua.run and Lua._handle_miney_code_form                              *)
(* ------------------------------------------------------------------ *)

\* the execution ids of these runs
ExecutionIds == {1, 2}

\* the lua_code argument: blank, code that encodes as UTF-8, and code with a
\* lone surrogate, whose encode() raises UnicodeEncodeError (a ValueError)
LuaCodes == {"blank", "ok", "unencodable"}

\* pending_lua_results[execution_id] is None
NoResponse == [shape |-> "None", execution_id |-> None, kind |-> "none"]

\* the formspec strings the server shows under miney:code_form: text that is
\* not JSON, JSON null, a JSON number, a JSON object without execution_id,
\* a legacy formspec without result field, and the response objects of an
\* execution: a result, no return value, an error, a missing privilege
CodeForms ==
    {[shape |-> s, execution_id |-> None, kind |-> "none"] :
         s \in {"invalid", "null", "number", "initial", "legacy_empty"}}
    \cup {[shape |-> "object", execution_id |-> id, kind |-> k] :
              id \in ExecutionIds, k \in {"result", "empty", "error", "permission"}}

\* what the steps below leave alone besides the session state and the wire
besideLuaSend == <<register_mode, sock, running, denied, nodedefs, callerVars, threadVars,
                   splitVars, playerVars, codecVars, chatVars, formspecVars, loopVars,
                   callbackVars, timeVars, sendVars, srpVars>>

\* dict.get(key): the value, or None
PendingGet(pending, id) == IF id \in DOMAIN pending THEN pending[id] ELSE NoResponse

\* pending[key] = value
PendingSet(pending, id, value) ==
    [k \in DOMAIN pending \cup {id} |-> IF k = id THEN value ELSE pending[k]]

\* dict.pop(key, None): what is left
PendingWithout(pending, id) == [k \in DOMAIN pending \ {id} |-> pending[k]]

\* run() ends: what it returned or raised
RunEnds(outcome) == [lua_run EXCEPT !.pc = "returned", !.outcome = outcome]

\* Lua.run, up to the request of the code form: blank code returns None, a
\* client that is not joined raises LuantiConnectionError; without the form
\* "/miney form" is sent as a chat message
CallRun(lua_code, execution_id) ==
    /\ lua_run.pc = "idle"
    /\ runs < MaxRuns
    /\ runs' = runs + 1
    /\ LET started == [NoRun EXCEPT !.lua_code = lua_code, !.execution_id = execution_id]
       IN  IF lua_code = "blank"
           THEN /\ lua_run' = [started EXCEPT !.pc = "returned", !.outcome = "return_none"]
                /\ UNCHANGED <<st, wire>>
           ELSE IF ~st.connected \/ st.state < JOINED
           THEN /\ lua_run' = [started EXCEPT !.pc = "returned",
                                              !.outcome = "raise_connection"]
                /\ UNCHANGED <<st, wire>>
           ELSE IF ~form_ready
           THEN /\ lua_run' = [started EXCEPT !.pc = "wait_form"]
                /\ IF st.authenticated
                   THEN st' = SendState(st) /\ wire' = SendWire(st, wire, "CHAT_MESSAGE")
                   ELSE UNCHANGED <<st, wire>>
           ELSE /\ lua_run' = [started EXCEPT !.pc = "register"]
                /\ UNCHANGED <<st, wire>>
    /\ UNCHANGED <<form_ready, pending_lua_results, lua_handler, forms, besideLuaSend>>

\* run(): the wait for form_ready ends, by the form or after five seconds
WaitForm ==
    /\ lua_run.pc = "wait_form"
    /\ lua_run' = IF form_ready THEN [lua_run EXCEPT !.pc = "register"]
                  ELSE RunEnds("raise_connection")
    /\ UNCHANGED <<form_ready, pending_lua_results, lua_handler, runs, forms, st, wire,
                   besideLuaSend>>

\* run(): self.pending_lua_results[execution_id] = None
RegisterPending ==
    /\ lua_run.pc = "register"
    /\ pending_lua_results' = PendingSet(pending_lua_results, lua_run.execution_id,
                                         NoResponse)
    /\ lua_run' = [lua_run EXCEPT !.pc = "send", !.registered = TRUE]
    /\ UNCHANGED <<form_ready, lua_handler, runs, forms, st, wire, besideLuaSend>>

\* run(): send_formspec_response("miney:code_form", fields); a ValueError
\* makes run() return None
SendCode ==
    /\ lua_run.pc = "send"
    /\ IF lua_run.lua_code = "unencodable"
       THEN /\ lua_run' = RunEnds("return_none")
            /\ UNCHANGED <<st, wire>>
       ELSE /\ lua_run' = [lua_run EXCEPT !.pc = "poll"]
            /\ IF st.authenticated
               THEN st' = SendState(st) /\ wire' = SendWire(st, wire, "INVENTORY_FIELDS")
               ELSE UNCHANGED <<st, wire>>
    /\ UNCHANGED <<form_ready, pending_lua_results, lua_handler, runs, forms,
                   besideLuaSend>>

\* run(): the polling loop finds a result and breaks
PollFound ==
    /\ lua_run.pc = "poll"
    /\ PendingGet(pending_lua_results, lua_run.execution_id) # NoResponse
    /\ lua_run' = [lua_run EXCEPT !.pc = "pop",
                      !.result = PendingGet(pending_lua_results, lua_run.execution_id)]
    /\ UNCHANGED <<form_ready, pending_lua_results, lua_handler, runs, forms, st, wire,
                   besideLuaSend>>

\* run(): the polling loop ends because the timeout has passed
PollTimeout ==
    /\ lua_run.pc = "poll"
    /\ lua_run' = [lua_run EXCEPT !.pc = "pop"]
    /\ UNCHANGED <<form_ready, pending_lua_results, lua_handler, runs, forms, st, wire,
                   besideLuaSend>>

\* what run() does with the popped response
RunOutcome(parsed_response) ==
    CASE parsed_response = NoResponse -> "raise_timeout"
      [] parsed_response.kind = "permission" -> "raise_permission"
      [] parsed_response.kind = "error" -> "raise_lua_error"
      [] parsed_response.kind = "result" -> "return_result"
      [] OTHER -> "return_none"

\* run(): parsed_response = self.pending_lua_results.pop(execution_id, None),
\* and the return or raise that follows
PopResult ==
    /\ lua_run.pc = "pop"
    /\ pending_lua_results' = PendingWithout(pending_lua_results, lua_run.execution_id)
    /\ lua_run' = RunEnds(RunOutcome(PendingGet(pending_lua_results,
                                                lua_run.execution_id)))
    /\ UNCHANGED <<form_ready, lua_handler, runs, forms, st, wire, besideLuaSend>>

\* the caller goes on after run()
RunResume ==
    /\ lua_run.pc = "returned"
    /\ lua_run' = NoRun
    /\ UNCHANGED <<form_ready, pending_lua_results, lua_handler, runs, forms, st, wire,
                   besideLuaSend>>

\* _handle_miney_code_form up to the membership test: form_ready = True; only
\* a JSON object with an execution_id goes on
DeliverCodeForm(formspec) ==
    /\ lua_handler.pc = "idle"
    /\ forms < MaxForms
    /\ forms' = forms + 1
    /\ form_ready' = TRUE
    /\ lua_handler' = IF formspec.shape = "object"
                      THEN [pc |-> "check", response |-> formspec]
                      ELSE NoForm
    /\ UNCHANGED <<pending_lua_results, lua_run, runs, st, wire, besideLuaSend>>

\* if execution_id in self.pending_lua_results: ... else: the result is dropped
HandlerCheck ==
    /\ lua_handler.pc = "check"
    /\ lua_handler' = IF lua_handler.response.execution_id \in DOMAIN pending_lua_results
                      THEN [lua_handler EXCEPT !.pc = "store"]
                      ELSE NoForm
    /\ UNCHANGED <<form_ready, pending_lua_results, lua_run, runs, forms, st, wire,
                   besideLuaSend>>

\* self.pending_lua_results[execution_id] = response_data
HandlerStore ==
    /\ lua_handler.pc = "store"
    /\ pending_lua_results' = PendingSet(pending_lua_results,
                                         lua_handler.response.execution_id,
                                         lua_handler.response)
    /\ lua_handler' = NoForm
    /\ UNCHANGED <<form_ready, lua_run, runs, forms, st, wire, besideLuaSend>>

\* a joined client with its Lua object
InitLua == InitPeer

NextLua ==
    \/ \E lua_code \in LuaCodes, execution_id \in ExecutionIds :
           CallRun(lua_code, execution_id)
    \/ WaitForm
    \/ RegisterPending
    \/ SendCode
    \/ PollFound
    \/ PollTimeout
    \/ PopResult
    \/ RunResume
    \/ \E formspec \in CodeForms : DeliverCodeForm(formspec)
    \/ HandlerCheck
    \/ HandlerStore

SpecLua == InitLua /\ [][NextLua]_vars

(* ------------------------------------------------------------------ *)
(* The client: properties                                               *)
(* ------------------------------------------------------------------ *)

\* Sequences: the concatenation of a sequence of sequences
JoinAll(seqs) ==
    LET RECURSIVE From(_)
        From(i) == IF i > Len(seqs) THEN <<>> ELSE seqs[i] \o From(i + 1)
    IN From(1)

\* datagrams of one command sent since connect() last began
Sent(cmd) == Cardinality({i \in DOMAIN wire : wire[i].cmd = cmd})

SendCalls == {"send_chat_message", "send_formspec_response"}

\* C1: when connect() raises LuantiConnectionError for an access denial, its
\* reason_code is the reason code of an ACCESS_DENIED payload, never None,
\* however the handler's writes interleave with the poll loop's reads.
C1_RaiseCarriesDenialCode ==
    (result.call = "connect" /\ result.kind = "raise") => result.code \in DeniedCodes

\* C2: once ACCESS_DENIED has been processed in a connection attempt the phase
\* stays DISCONNECTED whatever command arrives later, and connect() does not
\* return True for that attempt.
C2_DeniedPhaseIsTerminal ==
    denied # {} =>
        /\ st.state = DISCONNECTED
        /\ ~(result.call = "connect" /\ result.kind = "true")

\* C3: a step of a command handler (the denial's write of DISCONNECTED aside)
\* leaves the phase where it is or advances it by exactly one phase: the phase
\* never decreases and never skips a phase between two resets.
C3_PhaseAdvancesInOrder ==
    [][(tpc' # tpc /\ tpc # "access_denied_state")
         => st'.state \in {st.state, st.state + 1}]_vars

\* C4: whenever connect() returns True the phase is JOINED and authenticated
\* is True.
C4_TrueMeansJoinedAndAuthenticated ==
    (result.call = "connect" /\ result.kind = "true")
        => (result.state = JOINED /\ result.authenticated)

\* C5: when connect() gives up after a successful establish() it returns False
\* with the transport torn down: the loop told to stop, the socket closed,
\* connected False and the phase DISCONNECTED.
C5_TimeoutTearsDown ==
    (result.call = "connect" /\ result.line = 94) =>
        /\ result.kind = "false"
        /\ ~result.running
        /\ result.sock = "none"
        /\ ~result.connected
        /\ result.state = DISCONNECTED

\* C6: within one connection GOTBLOCKS is sent at most once, however many
\* NODEDEF commands arrive.
C6_GotblocksAtMostOnce == Sent("GOTBLOCKS") <= 1

\* C6 witness: two NODEDEF blobs were decompressed in one connection and one
\* GOTBLOCKS went out
C6_SecondNodedefHandled ==
    tpc = "loop" /\ nodedefs >= 2 /\ st.has_node_definitions /\ Sent("GOTBLOCKS") = 1

\* C7: send_chat_message and send_formspec_response called while authenticated
\* is False return False and change nothing: no datagram, the sequence number
\* and packets_sent (all of the session state) as before.
C7_UnauthenticatedSendRefused ==
    [][(pc = "idle" /\ pc' = "returned" /\ result'.call \in SendCalls
          /\ ~st.authenticated)
         => /\ result'.kind = "false"
            /\ st' = st
            /\ wire' = wire /\ acks' = acks /\ keepalives' = keepalives]_vars

\* C7 witness: a send was refused on a connection that is up but unauthenticated
C7_RefusedWhileConnected ==
    /\ pc = "returned"
    /\ result.call \in SendCalls
    /\ result.kind = "false"
    /\ result.connected /\ ~result.authenticated /\ result.sock = "open"

\* C8: disconnect() called on a client that is disconnected (never connected, or
\* disconnected before) returns without error, has sent no datagram and leaves
\* the session state equal to the freshly reset state.
C8_DisconnectIdempotent ==
    (pc = "returned" /\ result.call = "disconnect" /\ result.entry # None) =>
        /\ result.kind = "none"
        /\ result.fresh
        /\ result.sock = "none"
        /\ result.sent = result.entry

\* C9: Connection.disconnect() sends the disconnect packet exactly when the
\* client is connected with a peer id and an open socket and no denial is
\* recorded; it is sent with the loop already told to stop and the socket
\* still open, and the socket is closed when disconnect() returns.
C9_DisconnectPacket ==
    [][/\ (pc = "send_disconnect" /\ pc' = "close") =>
            /\ wire' = wire \/ wire' = Append(wire, DisconnectPacket(st.peer_id))
            /\ (wire' # wire) <=> (/\ st.connected /\ st.peer_id # None
                                   /\ sock = "open"
                                   /\ st.access_denied_reason = None)
            /\ (wire' # wire) => (~running /\ sock' = "open")
       /\ (pc = "disconnect_return" /\ pc' = "returned") => sock' = "none"
       /\ (Sent("DISCONNECT")' > Sent("DISCONNECT")) => pc = "send_disconnect"]_vars

\* C9 witness: disconnect() has sent the disconnect packet and closed the socket
C9_DisconnectSentThenClosed ==
    /\ pc = "returned"
    /\ result.call = "disconnect"
    /\ Sent("DISCONNECT") = 1
    /\ sock = "none"

(* ------------------------------------------------------------------ *)
(* Reassembly: properties                                               *)
(* ------------------------------------------------------------------ *)

\* the chunks of the sequence in index order
Payload == JoinAll(scenario.chunks)

\* C10 as stated: while chunks of the sequence are missing the processor is not
\* invoked; once chunks 0..n-1 have all arrived, in whatever order, it has been
\* invoked exactly once, with the first two bytes of the concatenation as the
\* command id and the remainder as data.
C10_InvokedExactlyOnce ==
    /\ Cardinality(Delivered) < scenario.n => calls = <<>>
    /\ Cardinality(Delivered) = scenario.n =>
          /\ Len(calls) = 1
          /\ Len(Payload) >= 2 =>
                /\ calls[1].command_id = Payload[1] * 256 + Payload[2]
                /\ calls[1].data = SubSeq(Payload, 3, Len(Payload))

\* C10 amended: as stated when the concatenation has two bytes or more; a
\* shorter concatenation is dropped with its buffer and the processor is not
\* invoked at all.
C10_InvokedOnceUnlessShort ==
    /\ Cardinality(Delivered) < scenario.n => calls = <<>>
    /\ Cardinality(Delivered) = scenario.n =>
          /\ scenario.seq \notin DOMAIN split_packets
          /\ IF Len(Payload) >= 2
             THEN /\ Len(calls) = 1
                  /\ calls[1].command_id = Payload[1] * 256 + Payload[2]
                  /\ calls[1].data = SubSeq(Payload, 3, Len(Payload))
             ELSE calls = <<>>

\* C10 witness: three distinct chunks arrived last-first, with another
\* sequence's chunk in between, and the processor got the command
C10_OutOfOrderReassembled ==
    /\ scenario.order = <<2, 0, 1>>
    /\ scenario.noise = 1
    /\ scenario.chunks[1] # scenario.chunks[3]
    /\ Len(calls) = 1
    /\ Len(calls[1].data) > 0

\* how often a name occurs in a list
Count(seq, name) == Cardinality({i \in DOMAIN seq : seq[i] = name})

\* C11: an UPDATE_PLAYER_LIST command of type Set leaves the roster holding
\* exactly the given names; of type Add it keeps every existing entry in
\* place, leaves the union of the old names and the given ones, and each name
\* that was new occurs once, also when the payload names it twice; of type
\* Remove it drops every occurrence of the given names and nothing else.
C11_PlayerListUpdate ==
    [][LET before == connected_players
           after == connected_players'
           names == Range(player_cmd'.players)
       IN  /\ player_cmd'.list_type = 0 => Range(after) = names
           /\ player_cmd'.list_type = 1 =>
                  /\ Range(after) = Range(before) \cup names
                  /\ SubSeq(after, 1, Len(before)) = before
                  /\ \A n \in names \ Range(before) : Count(after, n) = 1
           /\ player_cmd'.list_type = 2 =>
                  /\ \A n \in PlayerNames :
                         Count(after, n) = IF n \in names THEN 0 ELSE Count(before, n)
                  /\ \E keep \in SUBSET DOMAIN before :
                         /\ Len(after) = Cardinality(keep)
                         /\ \A i \in keep :
                                after[Cardinality({j \in keep : j <= i})] = before[i]
      ]_vars

\* a roster of a and b after Add of c, c: c was added once
C11_NameAddedTwiceOnce ==
    /\ player_cmd = [list_type |-> 1, players |-> <<"c", "c">>]
    /\ connected_players = <<"a", "b", "c">>

\* C12: what Protocol.parse makes of a built packet carries the builder's
\* fields: a reliable original packet parses as 'reliable' with the same peer
\* id, channel 0, sequence number, command id and data; a split packet with
\* the same split_seqnum, chunk_count, chunk_num and chunk bytes; an ACK as
\* 'ack' with the same peer id, channel and sequence number; keep-alive and
\* disconnect as 'control' with sub-type 2 and 3.
C12_RoundTrip ==
    LET a == frame.args
        p == frame.parsed
    IN  (frame.builder # "none" /\ p.type # "unparsed") =>
        /\ frame.builder \in {"original", "split"} =>
               /\ p.type = "reliable"
               /\ p.content.peer_id = a.peer_id
               /\ p.content.channel = 0
               /\ p.content.seqnum = a.seq
        /\ frame.builder = "original" =>
               /\ p.content.payload.class = "OriginalPacketPayload"
               /\ p.content.payload.command_id = a.command_id
               /\ p.content.payload.data = a.data
        /\ frame.builder = "split" =>
               /\ DOMAIN p.content.payload =
                      {"split_seqnum", "chunk_count", "chunk_num", "chunk_data"}
               /\ p.content.payload.split_seqnum = a.split_seqnum
               /\ p.content.payload.chunk_count = a.total_chunks
               /\ p.content.payload.chunk_num = a.chunk_num
               /\ p.content.payload.chunk_data = a.chunk_data
        /\ frame.builder = "ack" =>
               /\ p.type = "ack"
               /\ p.content.peer_id = a.peer_id
               /\ p.content.channel = a.channel
               /\ p.content.seqnum = a.seq
        /\ frame.builder \in {"keep_alive", "disconnect"} =>
               /\ p.type = "control"
               /\ p.content.peer_id = a.peer_id
               /\ p.content.ctrl_type = IF frame.builder = "keep_alive" THEN 2 ELSE 3

\* a reliable original packet with peer id 0xFFFF and sequence number 0 was
\* built and parsed, and so was data of one byte
C12_BoundaryOriginalParsed ==
    /\ frame.builder = "original"
    /\ frame.args.peer_id = 65535
    /\ frame.args.seq = 0
    /\ frame.args.data = <<255>>
    /\ frame.parsed.type = "reliable"

\* C13: when a CHAT_MESSAGE is dispatched, the registered handlers are called
\* with the message text in registration order, each at most once; a handler
\* that returns True is the last one called, so no handler registered after it
\* is called and every handler registered before it was called exactly once;
\* and when every handler called returned False, every registered handler was
\* called.
C13_ChatStopsAtFirstTrue ==
    [][\A message \in Messages :
           HandleChatMessage(message) =>
               LET hs == chat_message_handlers
                   log == chat_calls'
               IN  /\ Len(log) <= Len(hs)
                   /\ \A i \in DOMAIN log : log[i] = [handler |-> i, message |-> message]
                   /\ \A i \in DOMAIN log : hs[i] = "true" => i = Len(log)
                   /\ (\A i \in DOMAIN log : hs[i] = "false") => Len(log) = Len(hs)
                   /\ \A i \in DOMAIN hs :
                          (hs[i] = "true" /\ \A j \in 1..(i - 1) : hs[j] = "false")
                              => Len(log) = i
      ]_vars

\* three handlers, the second returning True: the first two were called, in
\* order, and the third was not
C13_SecondHandlerStopped ==
    /\ chat_message_handlers = <<"false", "true", "false">>
    /\ chat_calls = <<[handler |-> 1, message |-> "m1"], [handler |-> 2, message |-> "m1"]>>
    /\ chat_outcome = "returned"

\* C14: when a SHOW_FORMSPEC arrives for a form name that has registered
\* handlers, every handler registered for that name is called exactly once
\* with the raw formspec text, in registration order, also when an earlier
\* handler raises; no handler registered for another name is called.
C14_EveryFormspecHandlerCalled ==
    [][\A formname \in FormNames, formspec \in Formspecs :
           (HandleShowFormspec(formname, formspec) /\ formspec_handlers[formname] # <<>>)
               => /\ Len(form_calls') = Len(formspec_handlers[formname])
                  /\ \A i \in DOMAIN form_calls' :
                         form_calls'[i] = [formname |-> formname, handler |-> i,
                                           formspec |-> formspec]
      ]_vars

\* two handlers for one name, the first raising: both were called, in order
C14_CalledAfterRaise ==
    /\ formspec_handlers["miney:form"] = <<"raise", "ok">>
    /\ formspec_handlers["__builtin:death"] = <<"ok">>
    /\ form_calls = <<[formname |-> "miney:form", handler |-> 1, formspec |-> "f2"],
                      [formname |-> "miney:form", handler |-> 2, formspec |-> "f2"]>>

\* the datagrams a step puts on the wire
NewOnWire == SubSeq(wire', Len(wire) + 1, Len(wire'))

\* C15 as stated: a SHOW_FORMSPEC for "__builtin:death" makes the client send
\* exactly one response with btn_respawn = "true" when no handler is
\* registered for that name and auto_respawn is on, and none when a handler is
\* registered or auto_respawn is off.
C15_DeathTriggersResponse ==
    [][\A formspec \in Formspecs :
           HandleShowFormspec("__builtin:death", formspec) =>
               IF formspec_handlers["__builtin:death"] = <<>> /\ auto_respawn
               THEN /\ Len(NewOnWire) = 1
                    /\ NewOnWire[1].cmd = RespawnResponse
               ELSE NewOnWire = <<>>
      ]_vars

\* C15, amended: exactly one such response when moreover the client is
\* authenticated and connected with a peer id and an open socket; none in
\* every other case.
C15_DeathTriggersResponseWhenAuthenticated ==
    [][\A formspec \in Formspecs :
           HandleShowFormspec("__builtin:death", formspec) =>
               IF /\ formspec_handlers["__builtin:death"] = <<>>
                  /\ auto_respawn
                  /\ st.authenticated
                  /\ st.connected
                  /\ st.peer_id # None
                  /\ sock = "open"
               THEN /\ Len(NewOnWire) = 1
                    /\ NewOnWire[1].type = "reliable"
                    /\ NewOnWire[1].cmd = RespawnResponse
               ELSE NewOnWire = <<>>
      ]_vars

\* the death screen was answered twice, and then a handler was registered for
\* it
C15_RespawnedThenHandled ==
    /\ Respawns(wire) = 2
    /\ wire[Len(wire)].cmd = RespawnResponse
    /\ formspec_handlers["__builtin:death"] # <<>>
    /\ auto_respawn

\* C16: an exception raised by a chat callback or by a command handler does
\* not end the receive loop: the step that handles the command goes on to the
\* next iteration also when it raised, and the thread leaves the loop only
\* when running is false.
C16_ExceptionKeepsLoop ==
    [][/\ (tpc # "none" /\ tpc' = "none") => ~running
       /\ (tpc = "process" /\ Len(events') > Len(events)
               /\ events'[Len(events')].raised) => tpc' = "loop"
      ]_vars

\* a chat callback raised while the first datagram was handled, and the loop
\* went on to read, acknowledge and process a second one, the client running
C16_ProcessedAfterCallbackRaised ==
    /\ running
    /\ chat_outcome = "raised"
    /\ Len(events) = 6
    /\ events[3].what = "process" /\ events[3].raised
    /\ events[4].what = "recv"
    /\ events[5].what = "ack"
    /\ events[6].what = "process" /\ ~events[6].raised

\* C18: every datagram read that parses as a reliable packet is followed at
\* once by one ACK with the packet's channel and sequence number, ACKs are sent
\* for nothing else, and a reliable packet's payload is processed only right
\* after that ACK; this holds for a sequence number seen before as well.
C18_AckBeforeProcessing ==
    \A k \in DOMAIN events :
        LET e == events[k]
        IN  /\ (e.what = "recv" /\ e.reliable) =>
                   IF k = Len(events) THEN tpc = "send_ack"
                   ELSE /\ events[k + 1].what = "ack"
                        /\ events[k + 1].channel = e.channel
                        /\ events[k + 1].seqnum = e.seqnum
            /\ e.what = "ack" =>
                   /\ k > 1
                   /\ events[k - 1].what = "recv"
                   /\ events[k - 1].reliable
            /\ (e.what = "process" /\ e.reliable) =>
                   /\ k > 1
                   /\ events[k - 1].what = "ack"
                   /\ events[k - 1].channel = e.channel
                   /\ events[k - 1].seqnum = e.seqnum

\* how many of the datagrams a step puts on the wire carry the message
SentNow(action, event) ==
    Cardinality({i \in DOMAIN NewOnWire :
                     NewOnWire[i].cmd = CallbackMessage(action, event)})

\* C17 as stated: over any register / unregister calls a register message for
\* an event is sent exactly when the event's handler set goes from empty to
\* non-empty, and an unregister message exactly when it goes from non-empty
\* to empty; a second handler or the removal of a handler that is not the
\* last sends nothing.
C17_SubscriptionMessages ==
    [][\A event \in SUPPORTED_EVENTS :
           LET before == event_handlers[event]
               after == event_handlers'[event]
           IN  /\ SentNow("register", event) =
                      IF before = <<>> /\ after # <<>> THEN 1 ELSE 0
               /\ SentNow("unregister", event) =
                      IF before # <<>> /\ after = <<>> THEN 1 ELSE 0]_vars

\* C17, amended: while the client is authenticated the register message is
\* sent exactly when the event's handler set goes from empty to non-empty and
\* the unregister message exactly when it goes from non-empty to empty; while
\* it is not authenticated the handler set changes and no message is sent.
C17_SubscriptionMessagesWhenAuthenticated ==
    [][\A event \in SUPPORTED_EVENTS :
           LET before == event_handlers[event]
               after == event_handlers'[event]
           IN  IF st.authenticated /\ SendOk(st)
               THEN /\ SentNow("register", event) =
                           IF before = <<>> /\ after # <<>> THEN 1 ELSE 0
                    /\ SentNow("unregister", event) =
                           IF before # <<>> /\ after = <<>> THEN 1 ELSE 0
               ELSE /\ SentNow("register", event) = 0
                    /\ SentNow("unregister", event) = 0]_vars

\* two handlers of one event are registered and the event was told to the
\* server once: the second handler was added without a message
C17_SecondHandlerSilent ==
    /\ st.authenticated
    /\ Len(event_handlers["chat_message"]) = 2
    /\ Sent(CallbackMessage("register", "chat_message")) = 1
    /\ Sent(CallbackMessage("unregister", "chat_message")) = 0

\* C19: once the receiver has handled a split chunk, whatever its chunk_num
\* and chunk_count, split_packets holds no buffer whose number of stored
\* chunks equals the expected count recorded for it.
C19_NoFullBufferKept ==
    \A seqnum \in DOMAIN split_packets :
        Cardinality(DOMAIN split_packets[seqnum].chunks)
            # split_packets[seqnum].total_chunks

\* C20: a chunk never completes a reassembly buffer whose first chunk arrived
\* more than 30 seconds before it: by then the buffer has been purged and the
\* chunk starts a fresh one.
C20_LateChunkNeverCompletes ==
    [][\A seqnum \in DOMAIN split_packets :
           (Len(calls') > Len(calls) /\ seqnum \notin DOMAIN split_packets') =>
               now - split_packets[seqnum].received_time <= SplitPacketMaxAge]_vars

\* the chunks of datagrams offset+1 .. offset+n joined in index order
RECURSIVE JoinDatagrams(_, _)
JoinDatagrams(offset, n) ==
    IF n = 0 THEN NoBytes
    ELSE BytesConcat(JoinDatagrams(offset, n - 1), datagrams[offset + n].data)

\* datagram offset+1 is the one reliable original datagram of data
IsOriginalOf(offset, data) ==
    LET d == datagrams[offset + 1]
    IN  d.type = "original" /\ d.data = data /\ d.size <= 512

\* datagrams offset+1 .. offset+n are the n split datagrams of data, under
\* one split sequence number, the one after prev if there was one
AreChunksOf(offset, n, data, prev) ==
    /\ \A j \in 0..(n - 1) :
           LET d == datagrams[offset + 1 + j]
           IN  /\ d.type = "split"
               /\ d.split_seqnum = datagrams[offset + 1].split_seqnum
               /\ d.chunk_count = n
               /\ d.chunk_num = j
               /\ d.size <= 512
    /\ prev # None => datagrams[offset + 1].split_seqnum = (prev + 1) % 65536
    /\ JoinDatagrams(offset, n) = data

\* ceil(len / 495) datagrams for data longer than 501 bytes, else one
CountAsStated(call) ==
    IF call.data.len <= 501 THEN 1 ELSE (call.data.len + 494) \div 495

\* the same, and none for data of more than 65535 chunks
CountUpToLimit(call) ==
    IF CountAsStated(call) > 65535 THEN 0 ELSE CountAsStated(call)

\* the calls from made[k] on emitted the datagrams after offset, each as many
\* as stated, or as stated up to the limit
RECURSIVE EmittedFrom(_, _, _, _, _)
EmittedFrom(made, k, offset, prev, limited) ==
    IF k > Len(made) THEN offset = Len(datagrams)
    ELSE LET call == made[k]
             n == IF limited THEN CountUpToLimit(call) ELSE CountAsStated(call)
         IN  IF ~call.connected THEN EmittedFrom(made, k + 1, offset, prev, limited)
             ELSE /\ offset + n <= Len(datagrams)
                  /\ IF n = 0 THEN ~call.value
                     ELSE /\ call.value
                          /\ IF call.data.len <= 501 THEN IsOriginalOf(offset, call.data)
                             ELSE AreChunksOf(offset, n, call.data, prev)
                  /\ EmittedFrom(made, k + 1, offset + n,
                                 IF n > 0 /\ call.data.len > 501
                                 THEN datagrams[offset + 1].split_seqnum ELSE prev,
                                 limited)

\* C21 as stated: send_packet(data) on a connected client emits exactly one
\* reliable original datagram when len(data) <= 501 and otherwise exactly
\* ceil(len(data) / 495) reliable split datagrams that share one split
\* sequence number (one more, modulo 65536, than that of the previous split
\* message), carry that count as total_chunks and the indices 0..n-1 in
\* order, and whose chunks joined in index order equal data; no datagram is
\* longer than 512 bytes.
C21_SendPacketFraming ==
    senders["caller"].pc = "idle" =>
        EmittedFrom(senders["caller"].returned, 1, 0, None, FALSE)

\* C21, amended: the same for data of at most 65535 chunks (65535 * 495
\* bytes); for longer data send_packet returns False and emits nothing.
C21_SendPacketFramingUpToLimit ==
    senders["caller"].pc = "idle" =>
        EmittedFrom(senders["caller"].returned, 1, 0, None, TRUE)

\* two split messages went out, the first under split sequence number 65535
\* and the second, of three chunks, under 0
C21_SplitSeqnumWrapped ==
    /\ senders["caller"].pc = "idle"
    /\ \E i, j \in DOMAIN datagrams :
           /\ i < j
           /\ datagrams[i].type = "split" /\ datagrams[i].split_seqnum = 65535
           /\ datagrams[j].type = "split" /\ datagrams[j].split_seqnum = 0
           /\ datagrams[j].chunk_count = 3 /\ datagrams[j].chunk_num = 2

\* no thread is inside send_packet
SendersIdle == \A t \in SendThreads : senders[t].pc = "idle"

\* C22: state.sequence_number is always in 0..65535 and, whenever no send is
\* under way, equals 65500 plus the number of reliable datagrams built since
\* the reset (INIT, the original packets and the split chunks), modulo 65536;
\* control packets and refused sends leave it unchanged.
C22_SequenceNumberCountsReliable ==
    /\ st.sequence_number \in 0..65535
    /\ SendersIdle =>
           st.sequence_number = (65500 + Len(wire) + Len(datagrams)) % 65536

\* the sequence numbers of the reliable datagrams sent since the reset, in
\* the order of sending
ReliableSeqnums ==
    [i \in 1..(Len(wire) + Len(datagrams)) |->
         IF i <= Len(wire) THEN wire[i].seq ELSE datagrams[i - Len(wire)].seqnum]

\* C23: the reliable datagrams of one connection carry strictly consecutive
\* sequence numbers modulo 65536: none is used twice and none is skipped,
\* also when the caller thread and the receive thread send concurrently
\* (looked at once every datagram built has been sent).
C23_ConsecutiveSequenceNumbers ==
    SendersIdle =>
        \A i \in DOMAIN ReliableSeqnums :
            \E k \in DOMAIN ReliableSeqnums :
                ReliableSeqnums[k] = (65500 + i - 1) % 65536

(* ------------------------------------------------------------------ *)
(* Protocol.parse on datagrams as they arrive: properties               *)
(* ------------------------------------------------------------------ *)

\* the datagram starts with the protocol id
HasMagic(data) == Len(data) >= 4 /\ Prefix(data, 4) = PackU32(protocol_id)

\* the bytes a datagram needs for the layout its type bytes select: the base
\* header up to the packet type (8); a reliable packet up to its payload type
\* (11), with an original payload's command id (13), a split payload's three
\* fields (17) or a control payload's type (12); a control packet up to its
\* type (9), an ACK with its sequence number (11)
LayoutLen(data) ==
    IF Len(data) < 8 THEN 8
    ELSE CASE At(data, 7) = 3 ->
                  IF Len(data) < 11 THEN 11
                  ELSE CASE At(data, 10) = 1 -> 13
                         [] At(data, 10) = 2 -> 17
                         [] At(data, 10) = 0 -> 12
                         [] OTHER -> 11
           [] At(data, 7) = 0 ->
                  IF Len(data) < 9 THEN 9
                  ELSE IF At(data, 8) = 0 THEN 11 ELSE 9
           [] OTHER -> 8

TooShort(data) == Len(data) < LayoutLen(data)

\* the packet-type byte is neither CONTROL nor RELIABLE, or the payload-type
\* byte of a reliable packet is none of CONTROL, ORIGINAL and SPLIT
UnknownType(data) ==
    /\ Len(data) >= 8
    /\ \/ At(data, 7) \notin {0, 3}
       \/ At(data, 7) = 3 /\ Len(data) >= 11 /\ At(data, 10) \notin {0, 1, 2}

\* a datagram was received and parse was applied to it
Parsed == frame.builder = "recvfrom" /\ frame.parsed # Unparsed

\* C24: parse fails closed on framed input: for a datagram that starts with
\* the protocol id, parse never raises and never returns a direct command,
\* and it returns None when the datagram is too short for the layout its
\* type bytes select or its packet-type or payload-type byte is unknown
C24_ParseFailsClosed ==
    Parsed /\ HasMagic(frame.packet)
        => /\ frame.parsed.type \notin {"IndexError", "direct_command"}
           /\ TooShort(frame.packet) \/ UnknownType(frame.packet)
                  => frame.parsed = NoPacket

(* ------------------------------------------------------------------ *)
(* The receive loop on datagrams without protocol header: properties    *)
(* ------------------------------------------------------------------ *)

\* the loop read this datagram and parsed it into a direct command: command
\* id the first two bytes big-endian, data the rest; it goes on to the
\* dispatch, not to send_ack
ReadAsDirectCommand(data) ==
    /\ rx' = [type |-> "direct_command",
              content |-> [command_id |-> data[1] * 256 + data[2],
                           data |-> SubSeq(data, 3, Len(data))]]
    /\ tpc' = "process"
    /\ acks' = acks

\* the loop read this datagram and dropped it
ReadAndDropped ==
    /\ rx' = NoDatagram
    /\ tpc' = "loop"
    /\ acks' = acks
    /\ Len(events') = Len(events) + 1

\* the receive thread hands the direct command it holds to the command
\* processor: one more entry "process", no ACK, nothing else sent
DirectCommandDispatched ==
    /\ Len(events') = Len(events) + 1
    /\ events'[Len(events')].what = "process"
    /\ ~events'[Len(events')].reliable
    /\ acks' = acks
    /\ wire' = wire

\* C25: every datagram of at least 2 bytes that does not start with the
\* protocol id (datagrams of 2 or 3 bytes included) is parsed as a direct
\* command, command id the first two bytes big-endian and data the rest, and
\* the receive loop hands it to the command processor without sending an ACK;
\* a datagram of fewer than 2 bytes is dropped without dispatch
C25_DirectCommandDispatch ==
    [][/\ \A data \in Unframed :
              LoopRecv(data) => IF Len(data) >= 2 THEN ReadAsDirectCommand(data)
                                ELSE ReadAndDropped
       /\ tpc = "process" /\ rx.type = "direct_command" /\ tpc' # tpc
              => DirectCommandDispatched
       /\ tpc = "send_ack" => rx.type = "reliable"]_vars

\* a datagram without protocol header was read and handed to the command
\* processor, and no ACK was sent since the client joined
C25_DirectCommandProcessed ==
    /\ acks = 4
    /\ \E i \in 1..(Len(events) - 1) :
           /\ events[i].what = "recv" /\ ~events[i].reliable
           /\ events[i + 1].what = "process" /\ ~events[i + 1].reliable

(* ------------------------------------------------------------------ *)
(* The handshake commands: properties                                   *)
(* ------------------------------------------------------------------ *)

\* the bit 0x04 of an auth-method bitmask below 16 is set
HasFirstSrpBit(mask) == \E hi \in 0..1, lo \in 0..3 : mask = 8 * hi + 4 + lo

\* the handler sent exactly this command in this step
SentOne(cmd) == Len(wire') = Len(wire) + 1 /\ wire'[Len(wire')].cmd = cmd

\* C26: on HELLO while not authenticated the phase becomes AUTHENTICATING
\* and exactly one command is sent, FIRST_SRP if and only if connect() was
\* called with register=True and the bitmask has bit 0x04, else SRP_BYTES_A;
\* a HELLO while authenticated changes no state and sends nothing
C26_HelloStartsAuthentication ==
    [][/\ tpc = "hello" /\ ~st.authenticated
              => st'.state = AUTHENTICATING /\ tpc' = "hello_auth" /\ wire' = wire
       /\ tpc = "hello_auth"
              => /\ st'.state = AUTHENTICATING
                 /\ tpc' = "loop"
                 /\ SentOne(IF register_mode /\ HasFirstSrpBit(tcmd.arg)
                            THEN "FIRST_SRP" ELSE "SRP_BYTES_A")
       /\ tpc = "hello" /\ st.authenticated
              => st' = st /\ wire' = wire /\ tpc' = "loop"]_vars

\* the handler sent exactly these two commands, in this order, in this step
SentTwo(first, second) ==
    /\ Len(wire') = Len(wire) + 2
    /\ wire'[Len(wire) + 1].cmd = first
    /\ wire'[Len(wire) + 2].cmd = second

\* C27: AUTH_ACCEPT on a connected client marks the session authenticated,
\* and the client then sends INIT2 and CLIENT_READY, in that order, and the
\* phase ends at JOINING (JOINING only if the INIT2 send succeeded)
C27_AuthAcceptContinues ==
    [][/\ tpc = "auth_accept" => st'.authenticated /\ tpc' = "send_init2"
       /\ tpc = "send_init2" /\ SendOk(st)
              => /\ SentTwo("INIT2", "CLIENT_READY")
                 /\ st'.state = JOINING
                 /\ st'.authenticated
       /\ tpc = "send_init2" /\ ~SendOk(st)
              => wire' = wire /\ st'.state = AUTHENTICATED]_vars

\* NODEDEF payloads that are not received successfully: a blob that does not
\* decompress, or a payload cut off inside its length field
FailedNodedef == tcmd.cmd = "NODEDEF" /\ tcmd.arg # 0

\* C28: NODEDEF moves the phase to JOINED only on a successful receipt: a
\* truncated payload, or a blob that fails to decompress, leaves state.state
\* unchanged and sends no acknowledgment
C28_FailedNodedefKeepsPhase ==
    [][(tpc \in {"nodedef", "nodedef_blob"} /\ FailedNodedef)
           => (st'.state = st.state /\ wire' = wire)]_vars

(* ------------------------------------------------------------------ *)
(* SRPClient: properties                                                *)
(* ------------------------------------------------------------------ *)

\* the challenges the exchange has seen, answered or not
IsChallenge(e) == e.what \in {"proof", "rejected"}

\* C29: a challenge whose B is a multiple of N, or for which u is zero, is
\* rejected: no proof is sent for it, and the attempt is aborted, so that no
\* later challenge is answered with a proof from the same SRPClient (the same
\* private exponent a)
C29_RejectedChallengeAborts ==
    /\ \A i \in DOMAIN srp_log :
           /\ IsChallenge(srp_log[i])
           /\ \/ srp_log[i].B % N = 0
              \/ calculate_u(pow(g, srp_log[i].a, N), srp_log[i].B) = 0
           => srp_log[i].what = "rejected"
    /\ \A i, j \in DOMAIN srp_log :
           /\ i < j
           /\ srp_log[i].what = "rejected"
           /\ srp_log[j].what = "proof"
           => srp_log[j].user # srp_log[i].user

\* the challenge answered last before entry j by the client of entry j, or 0
LastProof(j) ==
    LET answered == {i \in 1..(j - 1) : /\ srp_log[i].what = "proof"
                                        /\ srp_log[i].user = srp_log[j].user}
    IN  IF answered = {} THEN 0 ELSE CHOOSE i \in answered : \A k \in answered : k <= i

\* verify_session returned True for the client in progress
VerifiedTrue ==
    \E j \in DOMAIN srp_log : /\ srp_log[j].what = "verify"
                              /\ srp_log[j].user = srp_user.id
                              /\ srp_log[j].returned

\* C30: verify_session(H) returns True and marks the exchange authenticated
\* exactly when H equals the expected server proof H_AMK that a preceding
\* process_challenge computed; for every other value, and when no challenge
\* has been processed, it returns False and does not mark the exchange
C30_VerifySessionExact ==
    /\ \A j \in DOMAIN srp_log :
           srp_log[j].what = "verify"
           => (srp_log[j].returned <=>
                 /\ LastProof(j) # 0
                 /\ srp_log[LastProof(j)].H = srp_log[j].H)
    /\ srp_user # NoSrpUser => (srp_user.authenticated <=> VerifiedTrue)

\* a challenge was answered and the matching server proof was then verified
C30_ProofVerified ==
    /\ srp_user # NoSrpUser
    /\ srp_user.authenticated
    /\ \E j \in DOMAIN srp_log : srp_log[j].what = "verify" /\ srp_log[j].returned
    /\ \E j \in DOMAIN srp_log : srp_log[j].what = "proof"

\* C31: within one connection attempt the access-denial record is set at
\* most once: once a reason text, or a reason code, is recorded, a further
\* ACCESS_DENIED does not change it
C31_DenialRecordedOnce ==
    [][/\ st.access_denied_reason # None
              => st'.access_denied_reason = st.access_denied_reason
       /\ st.access_denied_code # None
              => st'.access_denied_code = st.access_denied_code]_vars

\* C32: state.srp_user is set only while the phase is AUTHENTICATING: absent
\* before HELLO, discarded once the attempt succeeds or fails
C32_SrpUserOnlyWhileAuthenticating ==
    st.srp_user => st.state = AUTHENTICATING

(* ------------------------------------------------------------------ *)
(* The receive loop on control packets that renumber the peer:          *)
(* properties                                                           *)
(* ------------------------------------------------------------------ *)

\* the peer id a control packet of this type and payload leaves behind
PeerIdAfter(ctrl_type, payload) ==
    IF ctrl_type = 1 /\ Len(payload) >= 2 THEN payload[1] * 256 + payload[2]
    ELSE st.peer_id

\* the loop read a bare control packet: the peer id is replaced at once
BareControlRead(data) ==
    st'.peer_id = PeerIdAfter(data[9], SubSeq(data, 10, Len(data)))

\* the loop read a control packet inside a reliable packet: it holds the
\* control type and the payload for the dispatch, the peer id as it was
WrappedControlRead(data) ==
    /\ tpc' = "send_ack"
    /\ rx'.content.payload.ctrl_type = data[12]
    /\ rx'.content.payload.payload = SubSeq(data, 13, Len(data))
    /\ st'.peer_id = st.peer_id

\* the receive thread dispatches the control payload it holds
WrappedControlDispatched ==
    /\ tpc = "process"
    /\ tpc' # tpc
    /\ rx.type = "reliable"
    /\ "ctrl_type" \in DOMAIN rx.content.payload

\* a datagram was built in this step, and the peer id it carries
BuiltWithPeerId(peer_id) ==
    \/ Len(wire') = Len(wire) + 1 /\ wire'[Len(wire')].peer = peer_id
    \/ /\ Len(events') = Len(events) + 1
       /\ events'[Len(events')].what \in {"ack", "keep_alive"}
       /\ events'[Len(events')].peer_id = peer_id

DatagramBuilt ==
    \/ Len(wire') = Len(wire) + 1
    \/ /\ Len(events') = Len(events) + 1
       /\ events'[Len(events')].what \in {"ack", "keep_alive"}

\* C33: a control packet of type 1 with a payload of at least 2 bytes, bare
\* or inside a reliable packet, replaces state.peer_id with the big-endian
\* value of its first two payload bytes, and every datagram built afterwards
\* (reliable, ACK, keep-alive, disconnect) carries the peer id of the state;
\* a type-1 packet with a shorter payload, and every other control type,
\* leaves the peer id unchanged
C33_PeerIdReplaced ==
    [][/\ \A data \in PeerDatagrams :
              LoopRecv(data)
              => CASE data[8] = 0 -> BareControlRead(data)
                   [] data[8] = 3 /\ data[11] = 0 -> WrappedControlRead(data)
                   [] OTHER -> st'.peer_id = st.peer_id
       /\ WrappedControlDispatched
              => st'.peer_id = PeerIdAfter(rx.content.payload.ctrl_type,
                                           rx.content.payload.payload)
       /\ DatagramBuilt => BuiltWithPeerId(st.peer_id)]_vars

\* the server renumbered the peer to 256, and since then the client has built
\* a datagram that carries 256
C33_RenumberedDatagramSent ==
    /\ st.peer_id = 256
    /\ \/ \E i \in DOMAIN wire : wire[i].peer = 256
       \/ \E i \in DOMAIN events : /\ events[i].what \in {"ack", "keep_alive"}
                                   /\ events[i].peer_id = 256

(* ------------------------------------------------------------------ *)
(* establish() failing                                                 *)
(* ------------------------------------------------------------------ *)

\* the step of establish() whose handshake reply timed out or was shorter
\* than 14 bytes
EstablishReturnsFalse == pc = "establish" /\ pc' = "establish_failed"

\* the step of connect() that returns after establish() returned False
ConnectGivesUp == pc = "establish_failed" /\ pc' = "returned"

\* the step that starts the receive thread
ReceiverStarted == tpc = "none" /\ tpc' # "none"

InitSent(w) == \E i \in 1..Len(w) : w[i].cmd = "INIT"

\* C34: when the handshake reply times out or is shorter than 14 bytes,
\* establish() returns False without starting the receive thread and without
\* setting state.connected or state.peer_id; connect() then returns False
\* with state.state == DISCONNECTED and no INIT sent; and the receive thread
\* is started only once the peer id is stored.
C34_FailedEstablish ==
    [][/\ EstablishReturnsFalse =>
            /\ tpc' = tpc
            /\ running' = running
            /\ ~st'.connected
            /\ st'.peer_id = None
       /\ ConnectGivesUp =>
            /\ result'.kind = "false"
            /\ result'.state = DISCONNECTED
            /\ st'.state = DISCONNECTED
            /\ ~InitSent(wire')
       /\ ReceiverStarted => st'.peer_id # None]_vars

\* connect() has returned False because establish() failed
C34_ConnectReturnedFalse ==
    /\ pc = "returned"
    /\ result.call = "connect"
    /\ result.line = 77
    /\ result.kind = "false"

(* ------------------------------------------------------------------ *)
(* The receive thread of a connection                                   *)
(* ------------------------------------------------------------------ *)

\* establish() has just returned True
EstablishSucceeded == pc = "send_init"

\* C35: after every successful establish(), also on a reconnect that
\* follows a disconnect() whose join on the old thread timed out, one
\* receive thread is running with running == True.
C35_ReceiverAfterEstablish == EstablishSucceeded => (running /\ tpc # "none")

(* ------------------------------------------------------------------ *)
(* No retransmission                                                    *)
(* ------------------------------------------------------------------ *)

\* the loop reads an ACK
AckRead == \E data \in AckDatagrams : LoopRecv(data)

\* a step that puts a datagram of a send call on the wire: one datagram, with
\* a sequence number no earlier datagram carries
TransmittedOnce ==
    /\ Len(wire') = Len(wire) + 1
    /\ SubSeq(wire', 1, Len(wire)) = wire
    /\ \A i \in DOMAIN wire : wire[i] # wire'[Len(wire')]

\* C36: nothing is retransmitted: each datagram a send call produces goes
\* out once, and an inbound ACK only increments packets_received: it sends
\* nothing and changes neither the phase, the sequence counter nor a buffer.
C36_NoRetransmission ==
    [][/\ wire' # wire => (SendChatMessage /\ TransmittedOnce)
       /\ AckRead =>
            /\ st' = [st EXCEPT !.packets_received = @ + 1]
            /\ tpc' = "loop"
            /\ rx' = NoDatagram
            /\ UNCHANGED <<wire, acks, keepalives, splitVars, sock, running>>]_vars

\* an ACK was read after a chat message went out
C36_AckAfterSend ==
    /\ Len(wire) > Len(JoinedWire)
    /\ events # <<>>
    /\ events[Len(events)].what = "recv"
    /\ ~events[Len(events)].reliable
    /\ tpc = "loop"

(* ------------------------------------------------------------------ *)
(* The session state after disconnect()                                 *)
(* ------------------------------------------------------------------ *)

\* disconnect() has returned to its caller and connect() was not called since
DisconnectReturned == pc = "returned" /\ result.call = "disconnect"

\* C37: once disconnect() has returned the phase is DISCONNECTED, connected
\* and authenticated are False and peer_id is None, and they stay so until
\* the next connect(), also when the receive thread was inside a handler
\* when the join timed out.
C37_DisconnectedStaysDisconnected ==
    DisconnectReturned =>
        /\ st.state = DISCONNECTED
        /\ ~st.connected
        /\ ~st.authenticated
        /\ st.peer_id = None

(* ------------------------------------------------------------------ *)
(* The reassembly buffer across connections                             *)
(* ------------------------------------------------------------------ *)

\* connect() called after a disconnect(): the state has been reset, the
\* socket of the connection before is closed and its receive thread has
\* ended, the new socket is not yet open
ConnectingAfterDisconnect ==
    /\ pc = "establish"
    /\ connects > MaxConnects
    /\ sock = "none"
    /\ tpc = "none"

\* C38: after disconnect() followed by a new connect() the reassembly buffer
\* is empty, so that chunks buffered during one connection are never combined
\* with chunks of a later connection.
C38_BufferEmptyOnReconnect == ConnectingAfterDisconnect => split_packets = <<>>

(* ------------------------------------------------------------------ *)
(* Authenticated only after the proof was sent                          *)
(* ------------------------------------------------------------------ *)

\* the client has sent its authentication material in this attempt
AuthMaterialSent == Sent("SRP_BYTES_M") > 0 \/ Sent("FIRST_SRP") > 0

\* C39: state.authenticated is True only once the client has sent
\* SRP_BYTES_M, or FIRST_SRP when registering, in the current attempt: an
\* AUTH_ACCEPT that arrives before does not mark the session authenticated.
C39_AuthenticatedAfterProof == st.authenticated => AuthMaterialSent

(* ------------------------------------------------------------------ *)
(* Lua.run: results by execution id                                     *)
(* ------------------------------------------------------------------ *)

\* run() has returned or raised after registering its execution id
RunFinished == lua_run.pc = "returned" /\ lua_run.registered

\* C40: when run() has returned or raised, LuaResultTimeout included, its
\* execution id is no longer in pending_lua_results, however the form
\* handler interleaves with run()'s timeout and cleanup.
C40_NothingPendingAfterRun ==
    RunFinished => lua_run.execution_id \notin DOMAIN pending_lua_results

====
